---- MODULE Spec2Model ----
(***************************************************************************)
(* Model of tap-twinfield: the period iterator, the row cleaners, the      *)
(* extraction generators of the Twinfield client and the bookmark tools.   *)
(*                                                                         *)
(* Python values are tagged records [t |-> <type>, v |-> <payload>].       *)
(* A text (str) is a sequence of one-character strings, so that parsing    *)
(* and formatting are computed character by character.  A dict is a        *)
(* sequence of <<key, value>> items in insertion order; keys are column    *)
(* labels.  A raised exception is [t |-> "raise", exc |-> <class>, ...].   *)
(***************************************************************************)
EXTENDS Integers, Sequences, FiniteSets, TLC

VARIABLES
    now,          \* <<year, month>> of datetime.utcnow()
    logged_in,    \* Twinfield._logged_in
    pc,           \* position of the running stream generator
    stream,       \* name of the stream method that was called
    start_date,   \* its start_date argument (text)
    periods,      \* months the period iterator has still to yield
    date_month,   \* loop variable date_month of the stream method
    export,       \* rows returned by export_data for date_month
    number,       \* enumerate() position in export
    yielded,      \* records the generator has yielded, in order
    queries,      \* requests the remote endpoint has received, in order
    error,        \* exception that ended the generator, or NoError
    state,        \* the singer state dict
    written,      \* states emitted by singer.write_state, in order
    row,          \* a raw row object handed to a cleaner
    results,      \* the calls made on their own, with arguments and outcome
    bookmark      \* arguments and result of the last get_bookmark_value call

vars == <<now, logged_in, pc, stream, start_date, periods, date_month, export,
          number, yielded, queries, error, state, written, row, results,
          bookmark>>

(***************************************************************************)
(* Bounds of the model.                                                    *)
(***************************************************************************)
MaxRows == 2        \* rows in one response of the remote endpoint
MaxSpan == 1        \* how many months before `now` a start_date may lie
MaxCalls == 2       \* successive cleaner calls on one row object
MaxUpdates == 2     \* update_bookmark calls in one behaviour

(***************************************************************************)
(* Python values.                                                          *)
(***************************************************************************)
None == [t |-> "None", v |-> <<>>]
Str(s) == [t |-> "str", v |-> s]
PyInt(n) == [t |-> "int", v |-> <<n>>]
\* Decimal keeps sign, coefficient and exponent: Decimal('1.50') is 150E-2.
Dec(sign, coeff, exp) == [t |-> "Decimal", v |-> <<sign, coeff, exp>>]
List(l) == [t |-> "list", v |-> l]
Dict(items) == [t |-> "dict", v |-> items]
Raise(exc, val, typ) == [t |-> "raise", exc |-> exc, value |-> val, type |-> typ]
IsRaise(x) == x.t = "raise"

\* Python truthiness: None, '', [] and {} are false.
Truthy(x) ==
    CASE x.t = "None" -> FALSE
      [] x.t = "str" -> Len(x.v) > 0
      [] x.t = "list" -> Len(x.v) > 0
      [] x.t = "dict" -> Len(x.v) > 0
      [] x.t = "int" -> x.v[1] # 0
      [] x.t = "Decimal" -> x.v[2] # 0
      [] OTHER -> TRUE

(***************************************************************************)
(* dict operations on item sequences.                                      *)
(***************************************************************************)
Keys(d) == {d[i][1] : i \in 1..Len(d)}
Has(d, k) == k \in Keys(d)
IndexOf(d, k) == CHOOSE i \in 1..Len(d) : d[i][1] = k
\* d[k]; the caller checks Has(d, k), a missing key is a KeyError.
Item(d, k) == d[IndexOf(d, k)][2]
\* d.get(k)
Get(d, k) == IF Has(d, k) THEN Item(d, k) ELSE None
\* d[k] = v: an existing key keeps its position, a new key is appended.
SetItem(d, k, v) ==
    IF Has(d, k) THEN [d EXCEPT ![IndexOf(d, k)] = <<k, v>>]
    ELSE Append(d, <<k, v>>)
\* d without key k: d.pop(k, None), or a row that lacks a column
DelItem(d, k) == SelectSeq(d, LAMBDA it : it[1] # k)
\* The dict that the assignments d[k] = v of the pairs <<k, v>>, made in
\* order on an empty dict, build: a key stands where it was first assigned
\* and holds the value assigned last.
DictOf(pairs) ==
    LET n == Len(pairs)
        firsts == SelectSeq([i \in 1..n |-> i],
                            LAMBDA i : \A j \in 1..(i - 1) :
                                          pairs[j][1] # pairs[i][1])
        last(k) == CHOOSE j \in 1..n :
                      /\ pairs[j][1] = k
                      /\ \A l \in (j + 1)..n : pairs[l][1] # k
    IN  [x \in 1..Len(firsts) |->
            <<pairs[firsts[x]][1], pairs[last(pairs[firsts[x]][1])][2]>>]

(***************************************************************************)
(* Text operations.                                                        *)
(***************************************************************************)
DigitChars == <<"0", "1", "2", "3", "4", "5", "6", "7", "8", "9">>
IsDigit(c) == \E i \in 1..Len(DigitChars) : DigitChars[i] = c
DigitVal(c) == (CHOOSE i \in 1..Len(DigitChars) : DigitChars[i] = c) - 1
Whitespace == {" "}

\* str(n) for an int n
RECURSIVE NatToStr(_)
NatToStr(n) ==
    IF n < 10 THEN <<DigitChars[n + 1]>>
    ELSE NatToStr(n \div 10) \o <<DigitChars[(n % 10) + 1]>>
IntToStr(n) == IF n < 0 THEN <<"-">> \o NatToStr(0 - n) ELSE NatToStr(n)

RECURSIVE DigitsToNat(_, _)
DigitsToNat(s, acc) ==
    IF s = <<>> THEN acc
    ELSE DigitsToNat(Tail(s), acc * 10 + DigitVal(Head(s)))
AllDigits(s) == Len(s) > 0 /\ \A i \in 1..Len(s) : IsDigit(s[i])

\* s.lstrip(), s.rstrip(), s.strip()
RECURSIVE LStrip(_)
LStrip(s) ==
    IF s # <<>> /\ Head(s) \in Whitespace THEN LStrip(Tail(s)) ELSE s
RECURSIVE RStrip(_)
RStrip(s) ==
    IF s # <<>> /\ s[Len(s)] \in Whitespace
    THEN RStrip(SubSeq(s, 1, Len(s) - 1)) ELSE s
Strip(s) == RStrip(LStrip(s))

\* s.split(sep) for a one-character separator
RECURSIVE SplitAcc(_, _, _)
SplitAcc(s, sep, cur) ==
    IF s = <<>> THEN <<cur>>
    ELSE IF Head(s) = sep THEN <<cur>> \o SplitAcc(Tail(s), sep, <<>>)
    ELSE SplitAcc(Tail(s), sep, Append(cur, Head(s)))
Split(s, sep) == SplitAcc(s, sep, <<>>)

\* s.replace(old, new) for one-character old and new
ReplaceChar(s, old, new) ==
    [i \in 1..Len(s) |-> IF s[i] = old THEN new ELSE s[i]]

\* s.rjust(width, fill)
RECURSIVE RJust(_, _, _)
RJust(s, width, fill) ==
    IF Len(s) >= width THEN s ELSE RJust(<<fill>> \o s, width, fill)

\* the text as one atomic string (for the text of a query)
RECURSIVE Join(_)
Join(s) == IF s = <<>> THEN "" ELSE Head(s) \o Join(Tail(s))

(***************************************************************************)
(* Target types of the stream mappings: int, Decimal and date_parser.      *)
(* Each returns the converted value or the exception the call raises.      *)
(***************************************************************************)
\* exception classes that `except ValueError` catches
ValueErrors == {"ValueError", "ParserError"}

\* int(text) of the stripped text s: an optional sign, decimal digits
IntOfText(s, x) ==
    LET signed == s # <<>> /\ Head(s) \in {"-", "+"}
        digits == IF signed THEN Tail(s) ELSE s
    IN  IF AllDigits(digits)
        THEN PyInt(IF signed /\ Head(s) = "-"
                   THEN 0 - DigitsToNat(digits, 0) ELSE DigitsToNat(digits, 0))
        ELSE Raise("ValueError", x, "int")

\* int(text): surrounding whitespace is ignored
int(x) == IntOfText(Strip(x.v), x)

\* Decimal(text) of the parts around the decimal point.  A text that is no
\* number raises decimal.InvalidOperation, an ArithmeticError.
DecimalOfParts(sign, parts, x) ==
    LET whole == parts[1]
        frac == IF Len(parts) = 2 THEN parts[2] ELSE <<>>
    IN  IF /\ Len(parts) \in {1, 2}
           /\ \A i \in 1..Len(whole) : IsDigit(whole[i])
           /\ \A i \in 1..Len(frac) : IsDigit(frac[i])
           /\ Len(whole) + Len(frac) > 0
        THEN Dec(sign, DigitsToNat(whole \o frac, 0), 0 - Len(frac))
        ELSE Raise("InvalidOperation", x, "Decimal")

\* Decimal(text) of the stripped text s: an optional sign, digits with an
\* optional fraction
DecimalOfText(s, x) ==
    IF s # <<>> /\ Head(s) \in {"-", "+"}
    THEN DecimalOfParts(IF Head(s) = "-" THEN 1 ELSE 0, Split(Tail(s), "."), x)
    ELSE DecimalOfParts(0, Split(s, "."), x)

\* Decimal(text): surrounding whitespace is ignored
Decimal(x) == DecimalOfText(Strip(x.v), x)

\* days of a month of the proleptic Gregorian calendar
DaysIn(y, m) ==
    IF m \in {4, 6, 9, 11} THEN 30
    ELSE IF m = 2
         THEN (IF (y % 4 = 0 /\ y % 100 # 0) \/ y % 400 = 0 THEN 29 ELSE 28)
         ELSE 31

\* date_parser(text) = dateutil's parse(text).isoformat(), on the texts the
\* remote sends for a date column: eight digits YYYYMMDD.  A text without any
\* digit, or eight digits that are no calendar date, raises ParserError (a
\* ValueError).  Other texts are not given to date columns in this model.
date_parser(x) ==
    LET s == x.v
        y == DigitsToNat(SubSeq(s, 1, 4), 0)
        m == DigitsToNat(SubSeq(s, 5, 6), 0)
        d == DigitsToNat(SubSeq(s, 7, 8), 0)
    IN  IF /\ Len(s) = 8
           /\ AllDigits(s)
           /\ y >= 1
           /\ m \in 1..12
           /\ d \in 1..DaysIn(y, m)
        THEN Str(SubSeq(s, 1, 4) \o <<"-">> \o SubSeq(s, 5, 6) \o <<"-">>
                 \o SubSeq(s, 7, 8)
                 \o <<"T", "0", "0", ":", "0", "0", ":", "0", "0">>)
        ELSE Raise("ParserError", x, "date_parser")

\* data_type(input_value)
Convert(data_type, x) ==
    CASE data_type = "int" -> int(x)
      [] data_type = "Decimal" -> Decimal(x)
      [] data_type = "date_parser" -> date_parser(x)

(***************************************************************************)
(* cleaners.to_type_or_null and cleaners.clean_row                         *)
(***************************************************************************)
\* a conversion that makes every empty value None, nullable or not
to_type_or_none(input_value, data_type, nullable) ==
    IF Truthy(input_value) /\ data_type # "NoType"
    THEN Convert(data_type, input_value)
    ELSE IF ~Truthy(input_value) THEN None ELSE input_value

\* a variant that normalises only None and the empty text
to_type_or_text(input_value, data_type, nullable) ==
    IF Truthy(input_value) /\ data_type # "NoType"
    THEN Convert(data_type, input_value)
    ELSE IF input_value \in {None, Str(<<>>)} /\ nullable
    THEN None
    ELSE input_value

\* the try block of to_type_or_null around data_type(input_value): a
\* ValueError becomes ConvertionError, any other exception passes through
ExceptValueError(r, input_value, data_type) ==
    IF IsRaise(r) /\ r.exc \in ValueErrors
    THEN Raise("ConvertionError", input_value, data_type)
    ELSE r

to_type_or_null(input_value, data_type, nullable) ==
    IF Truthy(input_value) /\ data_type # "NoType"
    THEN ExceptValueError(Convert(data_type, input_value),
                          input_value, data_type)
    ELSE IF ~Truthy(input_value) /\ nullable
    THEN None
    ELSE input_value

\* the loop of clean_row, given the outcome val[i] of every mapping entry:
\* the first entry that raises ends the call, else the cleaned dict
CleanedOf(mapping, val, raising) ==
    IF raising # {}
    THEN val[CHOOSE i \in raising : \A j \in raising : i <= j]
    ELSE Dict(DictOf([i \in 1..Len(mapping) |->
                        <<IF mapping[i].map # "" THEN mapping[i].map
                          ELSE mapping[i].key,
                          val[i]>>]))

\* the positions of the entries of val that raise
Raising(val) == {i \in 1..Len(val) : IsRaise(val[i])}

\* the outcome of every mapping entry: row[key] of a missing key raises
\* KeyError, a failed conversion raises out of the loop
EntryValues(r, mapping) ==
    [i \in 1..Len(mapping) |->
        IF ~Has(r, mapping[i].key)
        THEN Raise("KeyError", Str(<<mapping[i].key>>), "NoType")
        ELSE to_type_or_null(Item(r, mapping[i].key),
                             mapping[i].type, mapping[i].null)]

\* clean_row with the outcomes of its entries computed
CleanedFrom(mapping, val) == CleanedOf(mapping, val, Raising(val))

\* a variant of clean_row that also hands on the raw row
WithRaw(cleaned, r) ==
    IF IsRaise(cleaned) THEN cleaned
    ELSE Dict(cleaned.v \o << <<"raw", Dict(r)>> >>)
clean_row_raw(r, mapping) ==
    WithRaw(CleanedFrom(mapping, EntryValues(r, mapping)), r)

\* clean_row(row, mapping)
clean_row(r, mapping) == CleanedFrom(mapping, EntryValues(r, mapping))

\* a variant of the key that is no digest
Sha1Missing(r) == None

\* a variant of the key that also depends on how many states were written
Sha1Salted(r) == [t |-> "sha1", v |-> <<r, Len(written)>>]

\* hashlib.sha1(str(row).encode()).hexdigest(): a digest determined by the
\* text of the row, i.e. by its items in order; distinct texts give distinct
\* digests (SHA-1 collisions are not modelled).
Sha1Hex(r) == [t |-> "sha1", v |-> r]

(***************************************************************************)
(* streams.STREAMS: per stream the key, the replication method, the        *)
(* bookmark and the mapping (an entry per mapping key, in source order;    *)
(* type is "NoType" where the entry declares none).                        *)
(***************************************************************************)
STREAMS ==
  [
  bank_transactions |-> [
    key_properties |-> "id",
    replication_method |-> "INCREMENTAL",
    replication_key |-> "id",
    bookmark |-> "start_date",
    mapping |-> <<
        [key |-> "id", map |-> "id", type |-> "NoType", null |-> FALSE],
        [key |-> "Periode", map |-> "yearperiod", type |-> "NoType", null |-> FALSE],
        [key |-> "Bank", map |-> "bank_code", type |-> "NoType", null |-> FALSE],
        [key |-> "Bank Naam", map |-> "bank_shortname", type |-> "NoType", null |-> FALSE],
        [key |-> "Boekst.nr.", map |-> "entry_number", type |-> "int", null |-> FALSE],
        [key |-> "Afschriftnr.", map |-> "statement_number", type |-> "int", null |-> FALSE],
        [key |-> "Grootboek", map |-> "ledger", type |-> "NoType", null |-> FALSE],
        [key |-> "Grootboek Naam", map |-> "ledger_name", type |-> "NoType", null |-> FALSE],
        [key |-> "Valuta", map |-> "curcode", type |-> "NoType", null |-> FALSE],
        [key |-> "Bedrag", map |-> "value_signed", type |-> "Decimal", null |-> FALSE],
        [key |-> "Euro", map |-> "basevalue_signed", type |-> "Decimal", null |-> FALSE],
        [key |-> "Vorig saldo", map |-> "startvalue", type |-> "Decimal", null |-> FALSE],
        [key |-> "Eindsaldo", map |-> "closevalue", type |-> "Decimal", null |-> FALSE],
        [key |-> "Status", map |-> "status", type |-> "NoType", null |-> FALSE]
    >>],
  transaction_list |-> [
    key_properties |-> "id",
    replication_method |-> "INCREMENTAL",
    replication_key |-> "id",
    bookmark |-> "start_date",
    mapping |-> <<
        [key |-> "id", map |-> "id", type |-> "NoType", null |-> FALSE],
        [key |-> "Periode", map |-> "yearperiod", type |-> "NoType", null |-> FALSE],
        [key |-> "Dagboek", map |-> "journal", type |-> "NoType", null |-> FALSE],
        [key |-> "Naam", map |-> "journal_name", type |-> "NoType", null |-> FALSE],
        [key |-> "Boekst.nr.", map |-> "booking_number", type |-> "int", null |-> FALSE],
        [key |-> "Status", map |-> "booking_status", type |-> "NoType", null |-> FALSE],
        [key |-> "Boekdatum", map |-> "booking_date", type |-> "date_parser", null |-> FALSE],
        [key |-> "Grootboek", map |-> "ledger", type |-> "int", null |-> FALSE],
        [key |-> "Relatie", map |-> "relation", type |-> "NoType", null |-> TRUE],
        [key |-> "Project", map |-> "project", type |-> "NoType", null |-> TRUE],
        [key |-> "Valuta", map |-> "curcode", type |-> "NoType", null |-> FALSE],
        [key |-> "Bedrag", map |-> "valuesigned", type |-> "Decimal", null |-> FALSE],
        [key |-> "Euro", map |-> "base_valuesigned", type |-> "Decimal", null |-> FALSE],
        [key |-> "Factuurnr.", map |-> "invoice_number", type |-> "NoType", null |-> TRUE],
        [key |-> "Invoerdatum", map |-> "entry_date", type |-> "date_parser", null |-> FALSE],
        [key |-> "Omschrijving", map |-> "description", type |-> "NoType", null |-> TRUE],
        [key |-> "Regime", map |-> "regime", type |-> "NoType", null |-> TRUE]
    >>],
  general_ledger_transactions |-> [
    key_properties |-> "id",
    replication_method |-> "INCREMENTAL",
    replication_key |-> "id",
    bookmark |-> "start_date",
    mapping |-> <<
        [key |-> "id", map |-> "id", type |-> "NoType", null |-> FALSE],
        [key |-> "Periode", map |-> "yearperiod", type |-> "NoType", null |-> FALSE],
        [key |-> "Dagboek", map |-> "journal", type |-> "NoType", null |-> FALSE],
        [key |-> "Naam", map |-> "journal_name", type |-> "NoType", null |-> FALSE],
        [key |-> "Boekst.nr.", map |-> "booking_number", type |-> "int", null |-> FALSE],
        [key |-> "Status", map |-> "booking_status", type |-> "NoType", null |-> FALSE],
        [key |-> "Grootboek", map |-> "ledger", type |-> "int", null |-> FALSE],
        [key |-> "Valuta", map |-> "curcode", type |-> "NoType", null |-> FALSE],
        [key |-> "Bedrag", map |-> "valuesigned", type |-> "Decimal", null |-> FALSE],
        [key |-> "Euro", map |-> "base_valuesigned", type |-> "Decimal", null |-> FALSE],
        [key |-> "Omschrijving", map |-> "description", type |-> "NoType", null |-> TRUE],
        [key |-> "Regime", map |-> "regime", type |-> "NoType", null |-> TRUE]
    >>],
  transactions_to_be_matched |-> [
    key_properties |-> "id",
    replication_method |-> "INCREMENTAL",
    replication_key |-> "id",
    bookmark |-> "start_date",
    mapping |-> <<
        [key |-> "id", map |-> "id", type |-> "NoType", null |-> FALSE],
        [key |-> "Periode", map |-> "yearperiod", type |-> "NoType", null |-> FALSE],
        [key |-> "Grootboek", map |-> "ledger", type |-> "int", null |-> FALSE],
        [key |-> "Naam", map |-> "ledger_name", type |-> "NoType", null |-> FALSE],
        [key |-> "Dagboek", map |-> "journal", type |-> "NoType", null |-> FALSE],
        [key |-> "Boekst.nr.", map |-> "booking_number", type |-> "int", null |-> FALSE],
        [key |-> "Valuta", map |-> "curcode", type |-> "NoType", null |-> FALSE],
        [key |-> "Bedrag", map |-> "valuesigned", type |-> "Decimal", null |-> FALSE],
        [key |-> "Euro", map |-> "base_valuesigned", type |-> "Decimal", null |-> FALSE],
        [key |-> "Openstaand bedrag", map |-> "openbase_valuesigned", type |-> "Decimal", null |-> FALSE],
        [key |-> "Betaalstatus", map |-> "payment_status", type |-> "NoType", null |-> FALSE],
        [key |-> "Regime", map |-> "regime", type |-> "NoType", null |-> TRUE]
    >>],
  general_ledger_details |-> [
    key_properties |-> "id",
    replication_method |-> "INCREMENTAL",
    replication_key |-> "id",
    bookmark |-> "start_date",
    mapping |-> <<
        [key |-> "id", map |-> "id", type |-> "NoType", null |-> FALSE],
        [key |-> "Administratie", map |-> "office", type |-> "NoType", null |-> FALSE],
        [key |-> "Adm.naam", map |-> "office_name", type |-> "NoType", null |-> FALSE],
        [key |-> "Jaar", map |-> "year", type |-> "int", null |-> FALSE],
        [key |-> "Periode", map |-> "period", type |-> "int", null |-> FALSE],
        [key |-> "Dagboek", map |-> "journal", type |-> "NoType", null |-> FALSE],
        [key |-> "Boekingsnummer", map |-> "booking_number", type |-> "int", null |-> FALSE],
        [key |-> "Status", map |-> "status", type |-> "NoType", null |-> FALSE],
        [key |-> "Boekdatum", map |-> "book_date", type |-> "date_parser", null |-> FALSE],
        [key |-> "Valuta", map |-> "curcode", type |-> "NoType", null |-> FALSE],
        [key |-> "Relatie", map |-> "relation", type |-> "NoType", null |-> TRUE],
        [key |-> "Relatienaam", map |-> "relation_name", type |-> "NoType", null |-> TRUE],
        [key |-> "Invoerdatum", map |-> "input_date", type |-> "date_parser", null |-> FALSE],
        [key |-> "Gebruikersnaam", map |-> "username", type |-> "NoType", null |-> FALSE],
        [key |-> "Grootboekrek.", map |-> "ledger", type |-> "int", null |-> FALSE],
        [key |-> "Grootboekrek.naam", map |-> "ledger_name", type |-> "NoType", null |-> FALSE],
        [key |-> "Dimensietype 1", map |-> "ledger_type", type |-> "NoType", null |-> FALSE],
        [key |-> "Kpl./rel.", map |-> "cost_centre", type |-> "NoType", null |-> TRUE],
        [key |-> "Kpl.-/rel.naam", map |-> "cost_centre_name", type |-> "NoType", null |-> TRUE],
        [key |-> "Dimensietype 2", map |-> "cost_centre_type", type |-> "NoType", null |-> TRUE],
        [key |-> "Act./proj.", map |-> "project", type |-> "NoType", null |-> TRUE],
        [key |-> "Act.-/proj.naam", map |-> "project_name", type |-> "NoType", null |-> TRUE],
        [key |-> "Dimensietype 3", map |-> "project_type", type |-> "NoType", null |-> TRUE],
        [key |-> "Bedrag", map |-> "valuesigned", type |-> "Decimal", null |-> FALSE],
        [key |-> "Basisbedrag", map |-> "base_valuesigned", type |-> "Decimal", null |-> FALSE],
        [key |-> "Rapportagebedrag", map |-> "report_valuesigned", type |-> "Decimal", null |-> TRUE],
        [key |-> "D/C", map |-> "debitcredit", type |-> "NoType", null |-> FALSE],
        [key |-> "Btw-code", map |-> "vatcode", type |-> "NoType", null |-> TRUE],
        [key |-> "Btw-bedrag", map |-> "vatbasevaluesigned", type |-> "Decimal", null |-> TRUE],
        [key |-> "Aantal", map |-> "quantity", type |-> "int", null |-> TRUE],
        [key |-> "Cheque", map |-> "cheque_number", type |-> "NoType", null |-> TRUE],
        [key |-> "Omschrijving", map |-> "description", type |-> "NoType", null |-> TRUE],
        [key |-> "Factuurnummer", map |-> "invoice_number", type |-> "NoType", null |-> TRUE],
        [key |-> "groups", map |-> "groups", type |-> "NoType", null |-> TRUE],
        [key |-> "Vrij tekstveld 1", map |-> "freetext1", type |-> "NoType", null |-> TRUE],
        [key |-> "Vrij tekstveld 2", map |-> "freetext2", type |-> "NoType", null |-> TRUE],
        [key |-> "Vrij tekstveld 3", map |-> "freetext3", type |-> "NoType", null |-> TRUE],
        [key |-> "Boekingsoorsprong", map |-> "origin", type |-> "NoType", null |-> FALSE],
        [key |-> "transactie type groep", map |-> "type", type |-> "NoType", null |-> FALSE]
    >>],
  annual_report |-> [
    key_properties |-> "id",
    replication_method |-> "INCREMENTAL",
    replication_key |-> "id",
    bookmark |-> "start_date",
    mapping |-> <<
        [key |-> "id", map |-> "id", type |-> "NoType", null |-> FALSE],
        [key |-> "Administratie", map |-> "office", type |-> "NoType", null |-> FALSE],
        [key |-> "Adm.naam", map |-> "office_name", type |-> "NoType", null |-> FALSE],
        [key |-> "Jaar", map |-> "year", type |-> "int", null |-> FALSE],
        [key |-> "Periode", map |-> "period", type |-> "int", null |-> FALSE],
        [key |-> "Grootboekrek.", map |-> "ledger", type |-> "int", null |-> FALSE],
        [key |-> "Grootboekrek.naam", map |-> "ledger_name", type |-> "NoType", null |-> FALSE],
        [key |-> "Dimensietype 1", map |-> "ledger_type", type |-> "NoType", null |-> FALSE],
        [key |-> "Kpl./rel.", map |-> "cost_centre", type |-> "NoType", null |-> TRUE],
        [key |-> "Kpl.-/rel.naam", map |-> "cost_centre_name", type |-> "NoType", null |-> TRUE],
        [key |-> "Act./proj.", map |-> "project", type |-> "NoType", null |-> TRUE],
        [key |-> "Act.-/proj.naam", map |-> "project_name", type |-> "NoType", null |-> TRUE],
        [key |-> "Dimensietype 3", map |-> "project_type", type |-> "NoType", null |-> TRUE],
        [key |-> "Basisbedrag", map |-> "base_valuesigned", type |-> "Decimal", null |-> FALSE],
        [key |-> "Rapportagebedrag", map |-> "report_valuesigned", type |-> "Decimal", null |-> TRUE],
        [key |-> "D/C", map |-> "debitcredit", type |-> "NoType", null |-> FALSE],
        [key |-> "Aantal", map |-> "quantity", type |-> "int", null |-> TRUE],
        [key |-> "groups", map |-> "groups", type |-> "NoType", null |-> TRUE]
    >>],
  annual_report_multicurrency |-> [
    key_properties |-> "id",
    replication_method |-> "INCREMENTAL",
    replication_key |-> "id",
    bookmark |-> "start_date",
    mapping |-> <<
        [key |-> "id", map |-> "id", type |-> "NoType", null |-> FALSE],
        [key |-> "Administratie", map |-> "office", type |-> "NoType", null |-> FALSE],
        [key |-> "Adm.naam", map |-> "office_name", type |-> "NoType", null |-> FALSE],
        [key |-> "Jaar", map |-> "year", type |-> "int", null |-> FALSE],
        [key |-> "Periode", map |-> "period", type |-> "int", null |-> FALSE],
        [key |-> "Type", map |-> "ledger_type", type |-> "NoType", null |-> FALSE],
        [key |-> "Grootboekrek.", map |-> "ledger", type |-> "int", null |-> FALSE],
        [key |-> "Grootboekrek.naam", map |-> "ledger_name", type |-> "NoType", null |-> FALSE],
        [key |-> "Valuta", map |-> "curcode", type |-> "NoType", null |-> FALSE],
        [key |-> "Bedrag", map |-> "valuesigned", type |-> "Decimal", null |-> FALSE],
        [key |-> "Basisbedrag", map |-> "base_valuesigned", type |-> "Decimal", null |-> FALSE],
        [key |-> "Rapportagebedrag", map |-> "report_valuesigned", type |-> "Decimal", null |-> TRUE],
        [key |-> "D/C", map |-> "debitcredit", type |-> "NoType", null |-> FALSE],
        [key |-> "Status", map |-> "status", type |-> "NoType", null |-> FALSE],
        [key |-> "groups", map |-> "groups", type |-> "NoType", null |-> TRUE]
    >>],
  suppliers |-> [
    key_properties |-> "id",
    replication_method |-> "INCREMENTAL",
    replication_key |-> "id",
    bookmark |-> "start_date",
    mapping |-> <<
        [key |-> "id", map |-> "id", type |-> "NoType", null |-> FALSE],
        [key |-> "Administratie", map |-> "office", type |-> "NoType", null |-> FALSE],
        [key |-> "Adm.naam", map |-> "office_name", type |-> "NoType", null |-> FALSE],
        [key |-> "Jaar", map |-> "year", type |-> "int", null |-> FALSE],
        [key |-> "Periode", map |-> "period", type |-> "int", null |-> FALSE],
        [key |-> "Dagboek", map |-> "journal", type |-> "NoType", null |-> FALSE],
        [key |-> "Dagboeknaam", map |-> "journal_name", type |-> "NoType", null |-> FALSE],
        [key |-> "Boekingsnummer", map |-> "booking_number", type |-> "int", null |-> FALSE],
        [key |-> "Status", map |-> "booking_status", type |-> "NoType", null |-> FALSE],
        [key |-> "Boekdatum", map |-> "booking_date", type |-> "date_parser", null |-> FALSE],
        [key |-> "Vervaldatum", map |-> "expire_date", type |-> "date_parser", null |-> TRUE],
        [key |-> "Factuurnummer", map |-> "invoice_number", type |-> "NoType", null |-> TRUE],
        [key |-> "Valuta", map |-> "curcode", type |-> "NoType", null |-> FALSE],
        [key |-> "Grootboekrek.", map |-> "ledger", type |-> "int", null |-> FALSE],
        [key |-> "Grootboekrek.naam", map |-> "ledger_name", type |-> "NoType", null |-> FALSE],
        [key |-> "Kpl./rel.", map |-> "cost_centre", type |-> "int", null |-> FALSE],
        [key |-> "Kpl.-/rel.naam", map |-> "cost_centre_name", type |-> "NoType", null |-> FALSE],
        [key |-> "Bedrag", map |-> "valuesigned", type |-> "Decimal", null |-> FALSE],
        [key |-> "Basisbedrag", map |-> "base_valuesigned", type |-> "Decimal", null |-> FALSE],
        [key |-> "Rapportagebedrag", map |-> "report_valuesigned", type |-> "Decimal", null |-> TRUE],
        [key |-> "Open amount transaction value", map |-> "open_valuesigned", type |-> "Decimal", null |-> TRUE],
        [key |-> "Open amount base value", map |-> "openbase_valuesigned", type |-> "Decimal", null |-> TRUE],
        [key |-> "Betaalstatus", map |-> "payment_status", type |-> "NoType", null |-> FALSE],
        [key |-> "Betaaldatum", map |-> "payment_date", type |-> "date_parser", null |-> FALSE],
        [key |-> "Afletternummer", map |-> "affiliation_number", type |-> "int", null |-> FALSE],
        [key |-> "Betaalnummer", map |-> "payment_number", type |-> "NoType", null |-> TRUE],
        [key |-> "Wijzigingsdatum", map |-> "modification_date", type |-> "date_parser", null |-> FALSE],
        [key |-> "Vrij tekstveld 1", map |-> "freetext1", type |-> "NoType", null |-> TRUE],
        [key |-> "Vrij tekstveld 2", map |-> "freetext2", type |-> "NoType", null |-> TRUE],
        [key |-> "Vrij tekstveld 3", map |-> "freetext3", type |-> "NoType", null |-> TRUE]
    >>],
  transaction_summary |-> [
    key_properties |-> "id",
    replication_method |-> "INCREMENTAL",
    replication_key |-> "id",
    bookmark |-> "start_date",
    mapping |-> <<
        [key |-> "id", map |-> "id", type |-> "NoType", null |-> FALSE],
        [key |-> "Administratie", map |-> "office", type |-> "NoType", null |-> FALSE],
        [key |-> "Adm.naam", map |-> "office_name", type |-> "NoType", null |-> FALSE],
        [key |-> "Dagboek", map |-> "journal", type |-> "NoType", null |-> FALSE],
        [key |-> "Jaar/periode (JJJJ/PP)", map |-> "yearperiod", type |-> "NoType", null |-> FALSE],
        [key |-> "Aantal transacties", map |-> "transaction_count", type |-> "int", null |-> FALSE],
        [key |-> "Aantal transactie regels", map |-> "transaction_line_count", type |-> "int", null |-> FALSE]
    >>]
  ]

StreamNames == DOMAIN STREAMS

(***************************************************************************)
(* queries.QUERIES: per report code the columns of the browse template.    *)
(***************************************************************************)
QUERIES ==
  ("410" :> <<
      [field |-> "fin.trs.head.yearperiod", label |-> "Periode", visible |-> TRUE,
       from |-> ":period_lower:", to |-> ":period_lower:"],
      [field |-> "fin.trs.head.bankcode", label |-> "Bank", visible |-> FALSE,
       from |-> "", to |-> ""],
      [field |-> "fin.trs.head.code", label |-> "Bank", visible |-> TRUE,
       from |-> "", to |-> ""],
      [field |-> "fin.trs.head.shortname", label |-> "Bank Naam", visible |-> TRUE,
       from |-> "", to |-> ""],
      [field |-> "fin.trs.head.number", label |-> "Boekst.nr.", visible |-> TRUE,
       from |-> "", to |-> ""],
      [field |-> "fin.trs.head.stmnumber", label |-> "Afschriftnr.", visible |-> TRUE,
       from |-> "", to |-> ""],
      [field |-> "fin.trs.line.dim1", label |-> "Grootboek", visible |-> TRUE,
       from |-> "", to |-> ""],
      [field |-> "fin.trs.line.dim1name", label |-> "Grootboek Naam", visible |-> TRUE,
       from |-> "", to |-> ""],
      [field |-> "fin.trs.head.curcode", label |-> "Valuta", visible |-> TRUE,
       from |-> "", to |-> ""],
      [field |-> "fin.trs.line.valuesigned", label |-> "Bedrag", visible |-> TRUE,
       from |-> "", to |-> ""],
      [field |-> "fin.trs.line.basevaluesigned", label |-> "Euro", visible |-> TRUE,
       from |-> "", to |-> ""],
      [field |-> "fin.trs.line.repvaluesigned", label |-> "", visible |-> FALSE,
       from |-> "", to |-> ""],
      [field |-> "fin.trs.head.startvalue", label |-> "Vorig saldo", visible |-> TRUE,
       from |-> "", to |-> ""],
      [field |-> "fin.trs.head.closevalue", label |-> "Eindsaldo", visible |-> TRUE,
       from |-> "", to |-> ""],
      [field |-> "fin.trs.head.status", label |-> "Status", visible |-> TRUE,
       from |-> "normal", to |-> ""],
      [field |-> "fin.trs.head.banktype", label |-> "Banktype", visible |-> FALSE,
       from |-> "bank", to |-> ""]
    >>)
  @@
  ("030_3" :> <<
      [field |-> "fin.trs.head.office", label |-> "Administratie", visible |-> TRUE,
       from |-> "", to |-> ""],
      [field |-> "fin.trs.head.officename", label |-> "Adm.naam", visible |-> TRUE,
       from |-> "", to |-> ""],
      [field |-> "fin.trs.head.year", label |-> "Jaar", visible |-> TRUE,
       from |-> "", to |-> ""],
      [field |-> "fin.trs.head.period", label |-> "Periode", visible |-> TRUE,
       from |-> "", to |-> ""],
      [field |-> "fin.trs.head.yearperiod", label |-> "Jaar/periode (JJJJ/PP)", visible |-> FALSE,
       from |-> ":period_lower:", to |-> ":period_upper:"],
      [field |-> "fin.trs.head.code", label |-> "Dagboek", visible |-> TRUE,
       from |-> "", to |-> ""],
      [field |-> "fin.trs.head.number", label |-> "Boekingsnummer", visible |-> TRUE,
       from |-> "", to |-> ""],
      [field |-> "fin.trs.head.status", label |-> "Status", visible |-> TRUE,
       from |-> "normal", to |-> ""],
      [field |-> "fin.trs.head.date", label |-> "Boekdatum", visible |-> TRUE,
       from |-> "", to |-> ""],
      [field |-> "fin.trs.head.curcode", label |-> "Valuta", visible |-> TRUE,
       from |-> "", to |-> ""],
      [field |-> "fin.trs.head.relation", label |-> "Relatie", visible |-> TRUE,
       from |-> "", to |-> ""],
      [field |-> "fin.trs.head.relationname", label |-> "Relatienaam", visible |-> TRUE,
       from |-> "", to |-> ""],
      [field |-> "fin.trs.head.inpdate", label |-> "Invoerdatum", visible |-> TRUE,
       from |-> "", to |-> ""],
      [field |-> "fin.trs.head.modified", label |-> "Wijzigingsdatum", visible |-> FALSE,
       from |-> "", to |-> ""],
      [field |-> "fin.trs.head.username", label |-> "Gebruikersnaam", visible |-> TRUE,
       from |-> "", to |-> ""],
      [field |-> "fin.trs.line.dim1", label |-> "Grootboekrek.", visible |-> TRUE,
       from |-> "", to |-> ""],
      [field |-> "fin.trs.line.dim1name", label |-> "Grootboekrek.naam", visible |-> TRUE,
       from |-> "", to |-> ""],
      [field |-> "fin.trs.line.dim1type", label |-> "Dimensietype 1", visible |-> TRUE,
       from |-> "", to |-> ""],
      [field |-> "fin.trs.line.dim2", label |-> "Kpl./rel.", visible |-> TRUE,
       from |-> "", to |-> ""],
      [field |-> "fin.trs.line.dim2name", label |-> "Kpl.-/rel.naam", visible |-> TRUE,
       from |-> "", to |-> ""],
      [field |-> "fin.trs.line.dim2type", label |-> "Dimensietype 2", visible |-> TRUE,
       from |-> "", to |-> ""],
      [field |-> "fin.trs.line.dim3", label |-> "Act./proj.", visible |-> TRUE,
       from |-> "", to |-> ""],
      [field |-> "fin.trs.line.dim3name", label |-> "Act.-/proj.naam", visible |-> TRUE,
       from |-> "", to |-> ""],
      [field |-> "fin.trs.line.dim3type", label |-> "Dimensietype 3", visible |-> TRUE,
       from |-> "", to |-> ""],
      [field |-> "fin.trs.line.valuesigned", label |-> "Bedrag", visible |-> TRUE,
       from |-> "", to |-> ""],
      [field |-> "fin.trs.line.basevaluesigned", label |-> "Basisbedrag", visible |-> TRUE,
       from |-> "", to |-> ""],
      [field |-> "fin.trs.line.repvaluesigned", label |-> "Rapportagebedrag", visible |-> TRUE,
       from |-> "", to |-> ""],
      [field |-> "fin.trs.line.debitcredit", label |-> "D/C", visible |-> TRUE,
       from |-> "", to |-> ""],
      [field |-> "fin.trs.line.vatcode", label |-> "Btw-code", visible |-> TRUE,
       from |-> "", to |-> ""],
      [field |-> "fin.trs.line.vatbasevaluesigned", label |-> "Btw-bedrag", visible |-> TRUE,
       from |-> "", to |-> ""],
      [field |-> "fin.trs.line.quantity", label |-> "Aantal", visible |-> TRUE,
       from |-> "", to |-> ""],
      [field |-> "fin.trs.line.chequenumber", label |-> "Cheque", visible |-> TRUE,
       from |-> "", to |-> ""],
      [field |-> "fin.trs.line.description", label |-> "Omschrijving", visible |-> TRUE,
       from |-> "", to |-> ""],
      [field |-> "fin.trs.line.invnumber", label |-> "Factuurnummer", visible |-> TRUE,
       from |-> "", to |-> ""],
      [field |-> "fin.trs.line.dim1group1", label |-> "Groep 1", visible |-> TRUE,
       from |-> "", to |-> ""],
      [field |-> "fin.trs.line.dim1group1name", label |-> "Groepnaam 1", visible |-> TRUE,
       from |-> "", to |-> ""],
      [field |-> "fin.trs.line.dim1group2", label |-> "Groep 2", visible |-> TRUE,
       from |-> "", to |-> ""],
      [field |-> "fin.trs.line.dim1group2name", label |-> "Groepnaam 2", visible |-> TRUE,
       from |-> "", to |-> ""],
      [field |-> "fin.trs.line.dim1group3", label |-> "Groep 3", visible |-> TRUE,
       from |-> "", to |-> ""],
      [field |-> "fin.trs.line.dim1group3name", label |-> "Groepnaam 3", visible |-> TRUE,
       from |-> "", to |-> ""],
      [field |-> "fin.trs.line.dim1group4", label |-> "Groep 4", visible |-> TRUE,
       from |-> "", to |-> ""],
      [field |-> "fin.trs.line.dim1group4name", label |-> "Groepnaam 4", visible |-> TRUE,
       from |-> "", to |-> ""],
      [field |-> "fin.trs.line.dim1group5", label |-> "Groep 5", visible |-> TRUE,
       from |-> "", to |-> ""],
      [field |-> "fin.trs.line.dim1group5name", label |-> "Groepnaam 5", visible |-> TRUE,
       from |-> "", to |-> ""],
      [field |-> "fin.trs.line.freetext1", label |-> "Vrij tekstveld 1", visible |-> TRUE,
       from |-> "", to |-> ""],
      [field |-> "fin.trs.line.freetext2", label |-> "Vrij tekstveld 2", visible |-> TRUE,
       from |-> "", to |-> ""],
      [field |-> "fin.trs.line.freetext3", label |-> "Vrij tekstveld 3", visible |-> TRUE,
       from |-> "", to |-> ""],
      [field |-> "fin.trs.head.origin", label |-> "Boekingsoorsprong", visible |-> TRUE,
       from |-> "", to |-> ""],
      [field |-> "fin.trs.mng.type", label |-> "transactie type groep", visible |-> TRUE,
       from |-> "", to |-> ""],
      [field |-> "fin.trs.head.reportingstructure", label |-> "Rapportagestructuur", visible |-> FALSE,
       from |-> "", to |-> ""]
    >>)
  @@
  ("000" :> <<
      [field |-> "fin.trs.head.yearperiod", label |-> "Periode", visible |-> TRUE,
       from |-> ":period_lower:", to |-> ":period_lower:"],
      [field |-> "fin.trs.head.code", label |-> "Dagboek", visible |-> TRUE,
       from |-> "", to |-> ""],
      [field |-> "fin.trs.head.shortname", label |-> "Naam", visible |-> TRUE,
       from |-> "", to |-> ""],
      [field |-> "fin.trs.head.number", label |-> "Boekst.nr.", visible |-> TRUE,
       from |-> "", to |-> ""],
      [field |-> "fin.trs.head.status", label |-> "Status", visible |-> TRUE,
       from |-> "normal", to |-> ""],
      [field |-> "fin.trs.line.dim1", label |-> "Grootboek", visible |-> TRUE,
       from |-> "", to |-> ""],
      [field |-> "fin.trs.line.dim1name", label |-> "Naam", visible |-> TRUE,
       from |-> "", to |-> ""],
      [field |-> "fin.trs.head.curcode", label |-> "Valuta", visible |-> TRUE,
       from |-> "", to |-> ""],
      [field |-> "fin.trs.line.valuesigned", label |-> "Bedrag", visible |-> TRUE,
       from |-> "", to |-> ""],
      [field |-> "fin.trs.line.basevaluesigned", label |-> "Euro", visible |-> TRUE,
       from |-> "", to |-> ""],
      [field |-> "fin.trs.line.repvaluesigned", label |-> "", visible |-> FALSE,
       from |-> "", to |-> ""],
      [field |-> "fin.trs.line.description", label |-> "Omschrijving", visible |-> TRUE,
       from |-> "", to |-> ""],
      [field |-> "fin.trs.head.browseregime", label |-> "Regime", visible |-> TRUE,
       from |-> "", to |-> ""]
    >>)
  @@
  ("010" :> <<
      [field |-> "fin.trs.head.yearperiod", label |-> "Periode", visible |-> TRUE,
       from |-> ":period_lower:", to |-> ":period_lower:"],
      [field |-> "fin.trs.line.dim1", label |-> "Grootboek", visible |-> TRUE,
       from |-> "", to |-> ""],
      [field |-> "fin.trs.line.dim1name", label |-> "Naam", visible |-> TRUE,
       from |-> "", to |-> ""],
      [field |-> "fin.trs.head.code", label |-> "Dagboek", visible |-> TRUE,
       from |-> "", to |-> ""],
      [field |-> "fin.trs.head.shortname", label |-> "Naam", visible |-> TRUE,
       from |-> "", to |-> ""],
      [field |-> "fin.trs.head.number", label |-> "Boekst.nr.", visible |-> TRUE,
       from |-> "", to |-> ""],
      [field |-> "fin.trs.head.curcode", label |-> "Valuta", visible |-> TRUE,
       from |-> "", to |-> ""],
      [field |-> "fin.trs.line.valuesigned", label |-> "Bedrag", visible |-> TRUE,
       from |-> "", to |-> ""],
      [field |-> "fin.trs.line.basevaluesigned", label |-> "Euro", visible |-> TRUE,
       from |-> "", to |-> ""],
      [field |-> "fin.trs.line.openbasevaluesigned", label |-> "Openstaand bedrag", visible |-> TRUE,
       from |-> "", to |-> ""],
      [field |-> "fin.trs.line.matchstatus", label |-> "Betaalstatus", visible |-> TRUE,
       from |-> "available", to |-> ""],
      [field |-> "fin.trs.head.status", label |-> "Status", visible |-> FALSE,
       from |-> "normal", to |-> ""],
      [field |-> "fin.trs.head.browseregime", label |-> "Regime", visible |-> TRUE,
       from |-> "", to |-> ""]
    >>)
  @@
  ("020" :> <<
      [field |-> "fin.trs.head.yearperiod", label |-> "Periode", visible |-> TRUE,
       from |-> ":period_lower:", to |-> ":period_lower:"],
      [field |-> "fin.trs.head.typecategory", label |-> "Dagboekcategorie", visible |-> FALSE,
       from |-> "", to |-> ""],
      [field |-> "fin.trs.head.code", label |-> "Dagboek", visible |-> TRUE,
       from |-> "", to |-> ""],
      [field |-> "fin.trs.head.shortname", label |-> "Naam", visible |-> TRUE,
       from |-> "", to |-> ""],
      [field |-> "fin.trs.head.number", label |-> "Boekst.nr.", visible |-> TRUE,
       from |-> "", to |-> ""],
      [field |-> "fin.trs.head.status", label |-> "Status", visible |-> TRUE,
       from |-> "normal", to |-> ""],
      [field |-> "fin.trs.head.date", label |-> "Boekdatum", visible |-> TRUE,
       from |-> "", to |-> ""],
      [field |-> "fin.trs.head.inpdate", label |-> "Invoerdatum", visible |-> FALSE,
       from |-> "", to |-> ""],
      [field |-> "fin.trs.head.modified", label |-> "Wijzigingsdatum", visible |-> FALSE,
       from |-> "", to |-> ""],
      [field |-> "fin.trs.line.dim1", label |-> "Grootboek", visible |-> TRUE,
       from |-> "", to |-> ""],
      [field |-> "fin.trs.line.dim2", label |-> "Relatie", visible |-> TRUE,
       from |-> "", to |-> ""],
      [field |-> "fin.trs.line.dim3", label |-> "Project", visible |-> TRUE,
       from |-> "", to |-> ""],
      [field |-> "fin.trs.head.curcode", label |-> "Valuta", visible |-> TRUE,
       from |-> "", to |-> ""],
      [field |-> "fin.trs.line.valuesigned", label |-> "Bedrag", visible |-> TRUE,
       from |-> "", to |-> ""],
      [field |-> "fin.trs.line.basevaluesigned", label |-> "Euro", visible |-> TRUE,
       from |-> "", to |-> ""],
      [field |-> "fin.trs.line.repvaluesigned", label |-> "", visible |-> FALSE,
       from |-> "", to |-> ""],
      [field |-> "fin.trs.line.invnumber", label |-> "Factuurnr.", visible |-> TRUE,
       from |-> "", to |-> ""],
      [field |-> "fin.trs.head.user", label |-> "Gebruiker", visible |-> FALSE,
       from |-> "", to |-> ""],
      [field |-> "fin.trs.head.inpdate", label |-> "Invoerdatum", visible |-> TRUE,
       from |-> "", to |-> ""],
      [field |-> "fin.trs.line.description", label |-> "Omschrijving", visible |-> TRUE,
       from |-> "", to |-> ""],
      [field |-> "fin.trs.head.browseregime", label |-> "Regime", visible |-> TRUE,
       from |-> "", to |-> ""]
    >>)
  @@
  ("040_1" :> <<
      [field |-> "fin.trs.head.office", label |-> "Administratie", visible |-> TRUE,
       from |-> "", to |-> ""],
      [field |-> "fin.trs.head.officename", label |-> "Adm.naam", visible |-> TRUE,
       from |-> "", to |-> ""],
      [field |-> "fin.trs.head.year", label |-> "Jaar", visible |-> TRUE,
       from |-> "", to |-> ""],
      [field |-> "fin.trs.head.period", label |-> "Periode", visible |-> TRUE,
       from |-> "", to |-> ""],
      [field |-> "fin.trs.head.yearperiod", label |-> "Jaar/periode (JJJJ/PP)", visible |-> FALSE,
       from |-> ":period_lower:", to |-> ":period_lower:"],
      [field |-> "fin.trs.head.status", label |-> "Status", visible |-> TRUE,
       from |-> "normal", to |-> ""],
      [field |-> "fin.trs.line.dim1", label |-> "Grootboekrek.", visible |-> TRUE,
       from |-> "", to |-> ""],
      [field |-> "fin.trs.line.dim1name", label |-> "Grootboekrek.naam", visible |-> TRUE,
       from |-> "", to |-> ""],
      [field |-> "fin.trs.line.dim1type", label |-> "Dimensietype 1", visible |-> TRUE,
       from |-> "", to |-> ""],
      [field |-> "fin.trs.line.dim2", label |-> "Kpl./rel.", visible |-> TRUE,
       from |-> "", to |-> ""],
      [field |-> "fin.trs.line.dim2name", label |-> "Kpl.-/rel.naam", visible |-> TRUE,
       from |-> "", to |-> ""],
      [field |-> "fin.trs.line.dim2type", label |-> "Dimensietype 2", visible |-> TRUE,
       from |-> "", to |-> ""],
      [field |-> "fin.trs.line.dim3", label |-> "Act./proj.", visible |-> TRUE,
       from |-> "", to |-> ""],
      [field |-> "fin.trs.line.dim3name", label |-> "Act.-/proj.naam", visible |-> TRUE,
       from |-> "", to |-> ""],
      [field |-> "fin.trs.line.dim3type", label |-> "Dimensietype 3", visible |-> TRUE,
       from |-> "", to |-> ""],
      [field |-> "fin.trs.line.basevaluesigned", label |-> "Basisbedrag", visible |-> TRUE,
       from |-> "", to |-> ""],
      [field |-> "fin.trs.line.repvaluesigned", label |-> "Rapportagebedrag", visible |-> TRUE,
       from |-> "", to |-> ""],
      [field |-> "fin.trs.line.debitcredit", label |-> "D/C", visible |-> TRUE,
       from |-> "", to |-> ""],
      [field |-> "fin.trs.line.quantity", label |-> "Aantal", visible |-> TRUE,
       from |-> "", to |-> ""],
      [field |-> "fin.trs.line.dim1group1", label |-> "Groep 1", visible |-> TRUE,
       from |-> "", to |-> ""],
      [field |-> "fin.trs.line.dim1group1name", label |-> "Groepnaam 1", visible |-> TRUE,
       from |-> "", to |-> ""],
      [field |-> "fin.trs.line.dim1group2", label |-> "Groep 2", visible |-> TRUE,
       from |-> "", to |-> ""],
      [field |-> "fin.trs.line.dim1group2name", label |-> "Groepnaam 2", visible |-> TRUE,
       from |-> "", to |-> ""],
      [field |-> "fin.trs.line.dim1group3", label |-> "Groep 3", visible |-> TRUE,
       from |-> "", to |-> ""],
      [field |-> "fin.trs.line.dim1group3name", label |-> "Groepnaam 3", visible |-> TRUE,
       from |-> "", to |-> ""],
      [field |-> "fin.trs.line.dim1group4", label |-> "Groep 4", visible |-> TRUE,
       from |-> "", to |-> ""],
      [field |-> "fin.trs.line.dim1group4name", label |-> "Groepnaam 4", visible |-> TRUE,
       from |-> "", to |-> ""],
      [field |-> "fin.trs.line.dim1group5", label |-> "Groep 5", visible |-> TRUE,
       from |-> "", to |-> ""],
      [field |-> "fin.trs.line.dim1group5name", label |-> "Groepnaam 5", visible |-> TRUE,
       from |-> "", to |-> ""],
      [field |-> "fin.trs.head.reportingstructure", label |-> "Rapportagestructuur", visible |-> FALSE,
       from |-> "", to |-> ""]
    >>)
  @@
  ("060" :> <<
      [field |-> "fin.trs.head.office", label |-> "Administratie", visible |-> TRUE,
       from |-> "", to |-> ""],
      [field |-> "fin.trs.head.officename", label |-> "Adm.naam", visible |-> TRUE,
       from |-> "", to |-> ""],
      [field |-> "fin.trs.head.yearperiod", label |-> "Jaar/periode (JJJJ/PP)", visible |-> FALSE,
       from |-> ":period_lower:", to |-> ":period_lower:"],
      [field |-> "fin.trs.head.year", label |-> "Jaar", visible |-> TRUE,
       from |-> "", to |-> ""],
      [field |-> "fin.trs.head.period", label |-> "Periode", visible |-> TRUE,
       from |-> "", to |-> ""],
      [field |-> "fin.trs.line.dim1type", label |-> "Type", visible |-> TRUE,
       from |-> "", to |-> ""],
      [field |-> "fin.trs.line.dim1", label |-> "Grootboekrek.", visible |-> TRUE,
       from |-> "", to |-> ""],
      [field |-> "fin.trs.line.dim1name", label |-> "Grootboekrek.naam", visible |-> TRUE,
       from |-> "", to |-> ""],
      [field |-> "fin.trs.head.curcode", label |-> "Valuta", visible |-> TRUE,
       from |-> "", to |-> ""],
      [field |-> "fin.trs.line.valuesigned", label |-> "Bedrag", visible |-> TRUE,
       from |-> "", to |-> ""],
      [field |-> "fin.trs.line.basevaluesigned", label |-> "Basisbedrag", visible |-> TRUE,
       from |-> "", to |-> ""],
      [field |-> "fin.trs.line.repvaluesigned", label |-> "Rapportagebedrag", visible |-> TRUE,
       from |-> "", to |-> ""],
      [field |-> "fin.trs.line.debitcredit", label |-> "D/C", visible |-> TRUE,
       from |-> "", to |-> ""],
      [field |-> "fin.trs.head.status", label |-> "Status", visible |-> TRUE,
       from |-> "normal", to |-> ""],
      [field |-> "fin.trs.line.dim1group1", label |-> "Groep 1", visible |-> TRUE,
       from |-> "", to |-> ""],
      [field |-> "fin.trs.line.dim1group1name", label |-> "Groepnaam 1", visible |-> TRUE,
       from |-> "", to |-> ""],
      [field |-> "fin.trs.line.dim1group2", label |-> "Groep 2", visible |-> TRUE,
       from |-> "", to |-> ""],
      [field |-> "fin.trs.line.dim1group2name", label |-> "Groepnaam 2", visible |-> TRUE,
       from |-> "", to |-> ""],
      [field |-> "fin.trs.line.dim1group3", label |-> "Groep 3", visible |-> TRUE,
       from |-> "", to |-> ""],
      [field |-> "fin.trs.line.dim1group3name", label |-> "Groepnaam 3", visible |-> TRUE,
       from |-> "", to |-> ""],
      [field |-> "fin.trs.line.dim1group4", label |-> "Groep 4", visible |-> TRUE,
       from |-> "", to |-> ""],
      [field |-> "fin.trs.line.dim1group4name", label |-> "Groepnaam 4", visible |-> TRUE,
       from |-> "", to |-> ""],
      [field |-> "fin.trs.line.dim1group5", label |-> "Groep 5", visible |-> TRUE,
       from |-> "", to |-> ""],
      [field |-> "fin.trs.line.dim1group5name", label |-> "Groepnaam 5", visible |-> TRUE,
       from |-> "", to |-> ""],
      [field |-> "fin.trs.head.reportingstructure", label |-> "Rapportagestructuur", visible |-> FALSE,
       from |-> "", to |-> ""]
    >>)
  @@
  ("230_2" :> <<
      [field |-> "fin.trs.head.office", label |-> "Administratie", visible |-> TRUE,
       from |-> "", to |-> ""],
      [field |-> "fin.trs.head.officename", label |-> "Adm.naam", visible |-> TRUE,
       from |-> "", to |-> ""],
      [field |-> "fin.trs.head.year", label |-> "Jaar", visible |-> TRUE,
       from |-> "", to |-> ""],
      [field |-> "fin.trs.head.period", label |-> "Periode", visible |-> TRUE,
       from |-> "", to |-> ""],
      [field |-> "fin.trs.head.yearperiod", label |-> "Jaar/periode (JJJJ/PP)", visible |-> FALSE,
       from |-> ":period_lower:", to |-> ":period_lower:"],
      [field |-> "fin.trs.head.code", label |-> "Dagboek", visible |-> TRUE,
       from |-> "", to |-> ""],
      [field |-> "fin.trs.head.shortname", label |-> "Dagboeknaam", visible |-> TRUE,
       from |-> "", to |-> ""],
      [field |-> "fin.trs.head.number", label |-> "Boekingsnummer", visible |-> TRUE,
       from |-> "", to |-> ""],
      [field |-> "fin.trs.head.status", label |-> "Status", visible |-> TRUE,
       from |-> "normal", to |-> ""],
      [field |-> "fin.trs.head.date", label |-> "Boekdatum", visible |-> TRUE,
       from |-> "", to |-> ""],
      [field |-> "fin.trs.line.datedue", label |-> "Vervaldatum", visible |-> TRUE,
       from |-> "", to |-> ""],
      [field |-> "fin.trs.line.invnumber", label |-> "Factuurnummer", visible |-> TRUE,
       from |-> "", to |-> ""],
      [field |-> "fin.trs.head.curcode", label |-> "Valuta", visible |-> TRUE,
       from |-> "", to |-> ""],
      [field |-> "fin.trs.head.modified", label |-> "Wijzigingsdatum boeking", visible |-> FALSE,
       from |-> "", to |-> ""],
      [field |-> "fin.trs.line.dim1", label |-> "Grootboekrek.", visible |-> TRUE,
       from |-> "", to |-> ""],
      [field |-> "fin.trs.line.dim1name", label |-> "Grootboekrek.naam", visible |-> TRUE,
       from |-> "", to |-> ""],
      [field |-> "fin.trs.line.dim2", label |-> "Kpl./rel.", visible |-> TRUE,
       from |-> "", to |-> ""],
      [field |-> "fin.trs.line.dim2name", label |-> "Kpl.-/rel.naam", visible |-> TRUE,
       from |-> "", to |-> ""],
      [field |-> "fin.trs.line.valuesigned", label |-> "Bedrag", visible |-> TRUE,
       from |-> "", to |-> ""],
      [field |-> "fin.trs.line.basevaluesigned", label |-> "Basisbedrag", visible |-> TRUE,
       from |-> "", to |-> ""],
      [field |-> "fin.trs.line.repvaluesigned", label |-> "Rapportagebedrag", visible |-> TRUE,
       from |-> "", to |-> ""],
      [field |-> "fin.trs.line.openvaluesigned", label |-> "Open amount transaction value", visible |-> TRUE,
       from |-> "", to |-> ""],
      [field |-> "fin.trs.line.openbasevaluesigned", label |-> "Open amount base value", visible |-> TRUE,
       from |-> "", to |-> ""],
      [field |-> "fin.trs.line.matchstatus", label |-> "Betaalstatus", visible |-> TRUE,
       from |-> "", to |-> ""],
      [field |-> "fin.trs.line.matchdate", label |-> "Betaaldatum", visible |-> TRUE,
       from |-> "", to |-> ""],
      [field |-> "fin.trs.line.matchnumber", label |-> "Afletternummer", visible |-> TRUE,
       from |-> "", to |-> ""],
      [field |-> "fin.trs.line.payrun", label |-> "Betaalnummer", visible |-> TRUE,
       from |-> "", to |-> ""],
      [field |-> "fin.trs.line.modified", label |-> "Wijzigingsdatum", visible |-> TRUE,
       from |-> "", to |-> ""],
      [field |-> "fin.trs.line.freetext1", label |-> "Vrij tekstveld 1", visible |-> TRUE,
       from |-> "", to |-> ""],
      [field |-> "fin.trs.line.freetext2", label |-> "Vrij tekstveld 2", visible |-> TRUE,
       from |-> "", to |-> ""],
      [field |-> "fin.trs.line.freetext3", label |-> "Vrij tekstveld 3", visible |-> TRUE,
       from |-> "", to |-> ""]
    >>)
  @@
  ("670" :> <<
      [field |-> "fin.trs.head.office", label |-> "Administratie", visible |-> TRUE,
       from |-> "", to |-> ""],
      [field |-> "fin.trs.head.officename", label |-> "Adm.naam", visible |-> TRUE,
       from |-> "", to |-> ""],
      [field |-> "fin.trs.head.code", label |-> "Dagboek", visible |-> TRUE,
       from |-> "", to |-> ""],
      [field |-> "fin.trs.head.yearperiod", label |-> "Jaar/periode (JJJJ/PP)", visible |-> TRUE,
       from |-> ":period_lower:", to |-> ":period_lower:"],
      [field |-> "fin.trs.head.count", label |-> "Aantal transacties", visible |-> TRUE,
       from |-> "", to |-> ""],
      [field |-> "fin.trs.head.inpdate", label |-> "Invoerdatum", visible |-> FALSE,
       from |-> "", to |-> ""],
      [field |-> "fin.trs.line.count", label |-> "Aantal transactie regels", visible |-> TRUE,
       from |-> "", to |-> ""]
    >>)

(***************************************************************************)
(* The cleaners.  A cleaner returns [row |-> the row object after the      *)
(* call, out |-> the returned dict or the raised exception].               *)
(***************************************************************************)
\* row['id'] = sha1(str(row)); clean_row(row, mapping): the input row object
\* itself receives the key 'id'.
CleanInPlace(name, r) ==
    LET mapping == STREAMS[name].mapping
        r2 == SetItem(r, "id", Sha1Hex(r))
    IN  [row |-> r2,
         out |-> IF Len(mapping) > 0 THEN clean_row(r2, mapping) ELSE Dict(r2)]

\* a variant of the 'groups' list that leaves out the groups without a code
GroupsPresent(r) ==
    List(SelectSeq([i \in 1..5 |->
                      Dict(<< <<"group", Get(r, "Groep " \o DigitChars[i + 1])>>,
                              <<"group_name",
                                Get(r, "Groepnaam " \o DigitChars[i + 1])>> >>)],
                   LAMBDA g : g.v[1][2] # None))

\* the 'groups' list of a response_row: five {group, group_name} dicts
Groups(r) ==
    List([i \in 1..5 |->
            Dict(<< <<"group", Get(r, "Groep " \o DigitChars[i + 1])>>,
                    <<"group_name", Get(r, "Groepnaam " \o DigitChars[i + 1])>> >>)])

ResponseFields_general_ledger_details ==
    <<"Administratie", "Adm.naam", "Jaar", "Periode", "Dagboek",
      "Boekingsnummer", "Status", "Boekdatum", "Valuta", "Relatie",
      "Relatienaam", "Invoerdatum", "Gebruikersnaam", "Grootboekrek.",
      "Grootboekrek.naam", "Dimensietype 1", "Kpl./rel.",
      "Kpl.-/rel.naam", "Dimensietype 2", "Act./proj.",
      "Act.-/proj.naam", "Dimensietype 3", "Bedrag", "Basisbedrag",
      "Rapportagebedrag", "D/C", "Btw-code", "Btw-bedrag", "Aantal",
      "Cheque", "Omschrijving", "Factuurnummer", "groups",
      "Vrij tekstveld 1", "Vrij tekstveld 2", "Vrij tekstveld 3",
      "Boekingsoorsprong", "transactie type groep">>

ResponseFields_annual_report ==
    <<"Administratie", "Adm.naam", "Jaar", "Periode", "Grootboekrek.",
      "Grootboekrek.naam", "Dimensietype 1", "Kpl./rel.",
      "Kpl.-/rel.naam", "Act./proj.", "Act.-/proj.naam",
      "Dimensietype 3", "Basisbedrag", "Rapportagebedrag", "D/C",
      "Aantal", "groups">>

ResponseFields_annual_report_multicurrency ==
    <<"Administratie", "Adm.naam", "Jaar", "Periode", "Type",
      "Grootboekrek.", "Grootboekrek.naam", "Valuta", "Bedrag",
      "Basisbedrag", "Rapportagebedrag", "D/C", "Status", "groups">>


\* response_row = {'id': sha1(str(row)), <field>: row.get(<field>), ...,
\* 'groups': [...]}; clean_row(response_row, mapping): the input row is read only.
CleanReshape(name, fields, r) ==
    LET mapping == STREAMS[name].mapping
        response_row ==
            <<  <<"id", Sha1Hex(r)>>  >> \o
            [i \in 1..Len(fields) |->
                IF fields[i] = "groups" THEN <<"groups", Groups(r)>>
                ELSE <<fields[i], Get(r, fields[i])>>]
    IN  [row |-> r,
         out |-> IF Len(mapping) > 0 THEN clean_row(response_row, mapping)
                 ELSE Dict(response_row)]

clean_bank_transactions(r, row_number) ==
    CleanInPlace("bank_transactions", r)

clean_general_ledger_details(r, row_number) ==
    CleanReshape("general_ledger_details",
                 ResponseFields_general_ledger_details, r)

clean_general_ledger_transactions(r, row_number) ==
    CleanInPlace("general_ledger_transactions", r)

clean_transactions_to_be_matched(r, row_number) ==
    CleanInPlace("transactions_to_be_matched", r)

\* a variant whose primary key is taken from the row together with its ordinal
clean_annual_report_numbered(r, row_number) ==
    CleanReshape("annual_report", ResponseFields_annual_report,
                 SetItem(r, "row_number", Str(NatToStr(row_number))))

clean_annual_report(r, row_number) ==
    CleanReshape("annual_report", ResponseFields_annual_report, r)

clean_annual_report_multicurrency(r, row_number) ==
    CleanReshape("annual_report_multicurrency",
                 ResponseFields_annual_report_multicurrency, r)

clean_suppliers(r, row_number) ==
    CleanInPlace("suppliers", r)

clean_transaction_summary(r, row_number) ==
    CleanInPlace("transaction_summary", r)

clean_transaction_list(r, row_number) ==
    CleanInPlace("transaction_list", r)

\* CLEANERS[name](row, row_number)
CLEANERS(name, r, row_number) ==
    CASE name = "bank_transactions" -> clean_bank_transactions(r, row_number)
      [] name = "general_ledger_details" ->
            clean_general_ledger_details(r, row_number)
      [] name = "general_ledger_transactions" ->
            clean_general_ledger_transactions(r, row_number)
      [] name = "transactions_to_be_matched" ->
            clean_transactions_to_be_matched(r, row_number)
      [] name = "annual_report" -> clean_annual_report(r, row_number)
      [] name = "annual_report_multicurrency" ->
            clean_annual_report_multicurrency(r, row_number)
      [] name = "suppliers" -> clean_suppliers(r, row_number)
      [] name = "transaction_summary" ->
            clean_transaction_summary(r, row_number)
      [] name = "transaction_list" -> clean_transaction_list(r, row_number)

(***************************************************************************)
(* Twinfield._start_month_till_now                                         *)
(***************************************************************************)
\* date_month.strftime('%Y/%m')
StrfTime(y, m) == NatToStr(y) \o <<"/">> \o RJust(NatToStr(m), 2, "0")

\* a monthly rule that stops before the month of `until`
RECURSIVE MonthlyBefore(_, _, _)
MonthlyBefore(y, m, until) ==
    IF y > until[1] \/ (y = until[1] /\ m >= until[2]) THEN <<>>
    ELSE <<StrfTime(y, m)>> \o
         (IF m = 12 THEN MonthlyBefore(y + 1, 1, until)
          ELSE MonthlyBefore(y, m + 1, until))

\* a monthly rule that yields its first month whatever `until` is
MonthlyAtLeastOne(y, m, until) ==
    IF y > until[1] \/ (y = until[1] /\ m > until[2]) THEN <<StrfTime(y, m)>>
    ELSE MonthlyBefore(y, m, until) \o <<StrfTime(until[1], until[2])>>

\* rrule(freq=MONTHLY, dtstart=date(y, m, 1), until=utcnow()): the first day
\* of every month from (y, m) on that is not after `until`; the first day
\* of the current month is never after utcnow().
RECURSIVE MonthlyUntil(_, _, _)
MonthlyUntil(y, m, until) ==
    IF y > until[1] \/ (y = until[1] /\ m > until[2]) THEN <<>>
    ELSE <<StrfTime(y, m)>> \o
         (IF m = 12 THEN MonthlyUntil(y + 1, 1, until)
          ELSE MonthlyUntil(y, m + 1, until))

\* a variant that reads a start date without a usable year or month as
\* January 2021
start_month_lenient(sd, nw) == List(MonthlyUntil(2021, 1, nw))

\* The list of months yielded for start_date when utcnow() is in month nw,
\* or the exception raised: int() of a text that is no number is a ValueError,
\* split('-')[1] without a '-' an IndexError, date() of a month outside
\* 1..12 or a year outside 1..9999 a ValueError.
start_month_till_now(sd, nw) ==
    LET parts == Split(sd, "-")
        year == int(Str(parts[1]))
        month == int(Str(LStrip(parts[2])))
    IN  IF IsRaise(year) THEN year
        ELSE IF Len(parts) < 2 THEN Raise("IndexError", Str(sd), "NoType")
        ELSE IF IsRaise(month) THEN month
        ELSE IF year.v[1] \notin 1..9999 \/ month.v[1] \notin 1..12
        THEN Raise("ValueError", Str(sd), "date")
        ELSE List(MonthlyUntil(year.v[1], month.v[1], nw))

(***************************************************************************)
(* tools.py and the singer functions it calls                              *)
(***************************************************************************)
\* str(x) of a record value
PyStr(x) ==
    CASE x.t = "str" -> x.v
      [] x.t = "int" -> IntToStr(x.v[1])
      [] x.t = "None" -> <<"N", "o", "n", "e">>

\* the streams of the two branches of get_bookmark_value
YearPeriodStreams ==
    {"bank_transactions", "general_ledger_transactions",
     "transactions_to_be_matched"}
YearAndPeriodStreams ==
    {"general_ledger_details", "annual_report", "multicurrency", "suppliers"}

\* the year-period text as the record holds it
YearPeriodAsIs(yearperiod) == yearperiod

\* the text of the period without padding
PeriodUnpadded(period) == PyStr(period)

\* row['yearperiod'].replace('/', '-')
YearPeriodText(yearperiod) == ReplaceChar(yearperiod, "/", "-")

\* a variant that gives every period the text of the first one
PeriodFirst(period) == <<"0", "1">>

\* str(row['period']).rjust(2, '0')
PeriodText(period) == RJust(PyStr(period), 2, "0")

\* get_bookmark_value(stream_name, row); rec is the record's item sequence
get_bookmark_value(stream_name, rec) ==
    IF stream_name \in YearPeriodStreams
    THEN IF ~Has(rec, "yearperiod")
         THEN Raise("KeyError", Str(<<"yearperiod">>), "NoType")
         ELSE IF Item(rec, "yearperiod").t # "str"
         THEN Raise("AttributeError", Item(rec, "yearperiod"), "NoType")
         ELSE Str(YearPeriodText(Item(rec, "yearperiod").v))
    ELSE IF stream_name \in YearAndPeriodStreams
    THEN IF ~Has(rec, "year")
         THEN Raise("KeyError", Str(<<"year">>), "NoType")
         ELSE IF ~Has(rec, "period")
         THEN Raise("KeyError", Str(<<"period">>), "NoType")
         ELSE Str(PyStr(Item(rec, "year")) \o <<"-">>
                  \o PeriodText(Item(rec, "period")))
    ELSE None

\* a variant of write_bookmark that keeps the bookmarks of no other stream
write_bookmark_alone(st, tap_stream_id, key, val) ==
    SetItem(st, "bookmarks",
            Dict(<< <<tap_stream_id, Dict(<< <<key, val>> >>)>> >>))

\* singer.write_bookmark(state, tap_stream_id, key, val); st is the state's
\* item sequence
write_bookmark(st, tap_stream_id, key, val) ==
    LET bookmarks == IF Has(st, "bookmarks") THEN Item(st, "bookmarks").v
                     ELSE <<>>
        of_stream == IF Has(bookmarks, tap_stream_id)
                     THEN Item(bookmarks, tap_stream_id).v ELSE <<>>
    IN  SetItem(st, "bookmarks",
                Dict(SetItem(bookmarks, tap_stream_id,
                             Dict(SetItem(of_stream, key, val)))))

\* a variant of clear_currently_syncing that leaves the marker in place
keep_currently_syncing(st) == st

\* clear_currently_syncing(state): state.pop('currently_syncing', None)
clear_currently_syncing(st) == DelItem(st, "currently_syncing")

\* an update that stores the bookmark only when the state holds none for
\* the stream or an earlier one
update_if_later(tap_stream_id, bm, st) ==
    LET bookmarks == IF Has(st, "bookmarks") THEN Item(st, "bookmarks").v
                     ELSE <<>>
        old == IF Has(bookmarks, tap_stream_id)
               THEN Get(Item(bookmarks, tap_stream_id).v,
                        STREAMS[tap_stream_id].bookmark)
               ELSE None
        month(txt) == DigitsToNat(SubSeq(txt, 1, 4), 0) * 12
                      + DigitsToNat(SubSeq(txt, 6, 7), 0)
        later == old = None \/ month(bm.v) > month(old.v)
        marked == IF Truthy(bm) /\ later
                  THEN write_bookmark(st, tap_stream_id,
                                      STREAMS[tap_stream_id].bookmark, bm)
                  ELSE st
        cleared == clear_currently_syncing(marked)
    IN  [state |-> cleared, written |-> <<cleared>>]

\* a variant of update_bookmark that stores no value
update_unmarked(tap_stream_id, bm, st) ==
    [state |-> clear_currently_syncing(st),
     written |-> <<clear_currently_syncing(st)>>]

\* update_bookmark(stream, bookmark, state): the state after the call and
\* the states it hands to singer.write_state
update_bookmark(tap_stream_id, bm, st) ==
    LET marked == IF Truthy(bm)
                  THEN write_bookmark(st, tap_stream_id,
                                      STREAMS[tap_stream_id].bookmark, bm)
                  ELSE st
        cleared == clear_currently_syncing(marked)
    IN  [state |-> cleared, written |-> <<cleared>>]

(***************************************************************************)
(* The remote endpoint (ProcessXmlString).  It answers a browse query with *)
(* a header of the labels of the visible columns and one line per row;     *)
(* every line ends with an unlabelled key element.  It returns the rows of *)
(* the periods between the bounds of the query's yearperiod column.        *)
(***************************************************************************)
\* the report code each stream method queries
CodeOf(name) ==
    CASE name = "annual_report_multicurrency" -> "060"
      [] name = "annual_report" -> "040_1"
      [] name = "bank_transactions" -> "410"
      [] name = "general_ledger_details" -> "030_3"
      [] name = "general_ledger_transactions" -> "000"
      [] name = "suppliers" -> "230_2"
      [] name = "transaction_list" -> "020"
      [] name = "transaction_summary" -> "670"
      [] name = "transactions_to_be_matched" -> "010"

\* query.replace(token, date_month) on the text of the template
ReplaceToken(query, token, dm) ==
    [i \in 1..Len(query) |->
        [query[i] EXCEPT !.from = IF @ = token THEN Join(dm) ELSE @,
                         !.to = IF @ = token THEN Join(dm) ELSE @]]

\* the query a stream method sends for date_month
QueryFor(name, dm) ==
    ReplaceToken(ReplaceToken(QUERIES[CodeOf(name)], ":period_lower:", dm),
                 ":period_upper:", dm)

\* periods the remote administration has transactions in
RemotePeriods == {<<y, m>> : y \in {2020, 2021}, m \in 1..12}
PeriodLE(p, q) == p[1] < q[1] \/ (p[1] = q[1] /\ p[2] <= q[2])

\* the periods whose 'YYYY/MM' text is txt
PeriodsOfText(txt) ==
    {p \in RemotePeriods : Join(StrfTime(p[1], p[2])) = txt}

\* the periods a query asks for: those between the bounds of its yearperiod
\* column
QueryPeriods(query) ==
    LET i == CHOOSE j \in 1..Len(query) :
                query[j].field = "fin.trs.head.yearperiod"
        los == PeriodsOfText(query[i].from)
        his == PeriodsOfText(query[i].to)
    IN  {p \in RemotePeriods :
            \E lo \in los, hi \in his : PeriodLE(lo, p) /\ PeriodLE(p, hi)}

\* a variant that leaves out the last visible column
AllButLastVisible(query) ==
    SubSeq(SelectSeq(query, LAMBDA c : c.visible), 1,
           Len(SelectSeq(query, LAMBDA c : c.visible)) - 1)

\* the columns of a query that the response has a field for
VisibleColumns(query) == SelectSeq(query, LAMBDA c : c.visible)

\* the target type the stream's mapping declares for a column label
TypeOf(name, label) ==
    LET mapping == STREAMS[name].mapping
    IN  IF \E i \in 1..Len(mapping) : mapping[i].key = label
        THEN mapping[CHOOSE i \in 1..Len(mapping) : mapping[i].key = label].type
        ELSE "NoType"

PeriodFields ==
    {"fin.trs.head.yearperiod", "fin.trs.head.year", "fin.trs.head.period"}

\* the column whose text differs between the kinds of row of the model: the
\* first visible column of type int that is no period column
TargetColumn(name) ==
    LET cols == VisibleColumns(QUERIES[CodeOf(name)])
        ok(i) == cols[i].field \notin PeriodFields
                 /\ TypeOf(name, cols[i].label) = "int"
    IN  cols[CHOOSE i \in 1..Len(cols) :
                ok(i) /\ \A j \in 1..(i - 1) : ~ok(j)].label

\* kinds of row: a well-formed row, a second well-formed row with another
\* text in the target column, and a row whose target column is no number
RowKinds == {"base", "other", "bad"}

\* a text of each target type and a second, different one
TextOf(type) ==
    CASE type = "int" -> Str(<<"1", "2">>)
      [] type = "Decimal" -> Str(<<"1", ".", "5", "0">>)
      [] type = "date_parser" -> Str(<<"2", "0", "2", "1", "0", "1", "1", "5">>)
      [] OTHER -> Str(<<"x">>)
OtherTextOf(type) ==
    CASE type = "int" -> Str(<<"7">>)
      [] type = "Decimal" -> Str(<<"-", "3">>)
      [] type = "date_parser" -> Str(<<"2", "0", "2", "0", "1", "2", "3", "1">>)
      [] OTHER -> Str(<<"y">>)
\* a text no target type accepts
BadText == Str(<<"x", "x">>)

\* the text of one field of a response line
RemoteField(name, c, p, kind) ==
    CASE c.field = "fin.trs.head.yearperiod" -> Str(StrfTime(p[1], p[2]))
      [] c.field = "fin.trs.head.year" -> Str(NatToStr(p[1]))
      [] c.field = "fin.trs.head.period" -> Str(NatToStr(p[2]))
      [] OTHER ->
            IF c.label = TargetColumn(name) /\ kind = "other"
            THEN OtherTextOf("int")
            ELSE IF c.label = TargetColumn(name) /\ kind = "bad"
            THEN BadText
            ELSE TextOf(TypeOf(name, c.label))

\* the response to `query` of stream `name` with one line per kind in kinds
RemoteResponse(name, query, kinds) ==
    LET cols == VisibleColumns(query)
        ps == QueryPeriods(query)
    IN  [labels |-> [i \in 1..Len(cols) |-> cols[i].label],
         lines |->
            IF ps = {} THEN <<>>
            ELSE [k \in 1..Len(kinds) |->
                    [i \in 1..Len(cols) |->
                        RemoteField(name, cols[i], CHOOSE p \in ps : TRUE,
                                    kinds[k])]
                    \o <<None>>]]

(***************************************************************************)
(* Twinfield.export_data, after the remote call                            *)
(***************************************************************************)
\* rows taken from root[2::]: the first row of the response is skipped
ParseSkipFirst(response) ==
    [k \in 1..(Len(response.lines) - 1) |->
        DictOf([i \in 1..Len(response.labels) |->
                  <<response.labels[i], response.lines[k + 1][i]>>])]

\* a variant of the parsing that returns the rows in reverse order
ParseReversed(response) ==
    [k \in 1..Len(response.lines) |->
        DictOf([i \in 1..Len(response.labels) |->
                  <<response.labels[i],
                    response.lines[Len(response.lines) + 1 - k][i]>>])]

\* dict(zip(columns, fields)) of a DataFrame line after the columns named
\* '?' were dropped: with a label that occurs twice the later field wins
ZipLine(columns, fields) ==
    LET kept == SelectSeq([i \in 1..Len(columns) |-> i],
                          LAMBDA i : columns[i] # "?")
    IN  DictOf([x \in 1..Len(kept) |-> <<columns[kept[x]], fields[kept[x]]>>])

\* the rows export_data returns for a response
ParseResponse(response) ==
    LET columns == Append(response.labels, "?")
    IN  [k \in 1..Len(response.lines) |->
            ZipLine(columns, response.lines[k])]

(***************************************************************************)
(* The stream methods of the Twinfield client (bank_transactions,          *)
(* general_ledger_details, ...): one generator per stream, all of the same *)
(* shape.  They differ in the report code and the cleaner only.            *)
(***************************************************************************)
NoError == [t |-> "NoError"]
NoCall == [t |-> "NoCall"]

\* the month of datetime.utcnow() the model runs in: a January, so that the
\* months before it lie in the year before
Nows == {<<2021, 1>>}

\* the month k months after (k < 0: before) month p
AddMonths(p, k) ==
    LET idx == p[1] * 12 + (p[2] - 1) + k
    IN  <<idx \div 12, (idx % 12) + 1>>

\* 'YYYY-MM' texts given as start_date: from MaxSpan months before the
\* current month to the month after it
StartDateOf(p) == NatToStr(p[1]) \o <<"-">> \o RJust(NatToStr(p[2]), 2, "0")
StartDates(nw) == {StartDateOf(AddMonths(nw, k)) : k \in (0 - MaxSpan)..1}

\* start_date texts of the configuration that are not 'YYYY-MM': no '-',
\* no number for the year, a month that does not exist, the empty text
MalformedStartDates ==
    { <<"2","0","2","1">>,
      <<"x","x","-","0","1">>,
      <<"2","0","2","1","-","1","3">>,
      <<>> }

\* a full date given as start_date: the text of the current month followed
\* by a day
DatedStartDates(nw) == {StartDateOf(nw) \o <<"-","1","5">>}

\* the start_date values of the configuration
ConfigStartDates(nw) ==
    StartDates(nw) \cup MalformedStartDates \cup DatedStartDates(nw)

\* the responses of the model: up to MaxRows lines, at most one of them of
\* another kind than the well-formed one
KindSeqs ==
    {kinds \in UNION {[1..n -> RowKinds] : n \in 0..MaxRows} :
        \A i \in 1..Len(kinds) : \A j \in 1..Len(kinds) :
            (kinds[i] # "base" /\ kinds[j] # "base") => i = j}

\* a variant in which the loop goes on after a failed remote call
AtLoopOrFailed ==
    \/ pc = "loop"
    \/ (pc = "rows" /\ number = Len(export))
    \/ (pc = "error" /\ error.t = "raise" /\ error.exc = "TransportError")

\* a variant in which the loop is entered once and never taken up again
AtLoopOnce == pc = "loop"

\* the generator is at the head of its `for date_month in ...` loop
AtLoop == pc = "loop" \/ (pc = "rows" /\ number = Len(export))

\* A stream method is called and its generator started: the period iterator
\* parses start_date and sets up the months until now.
Begin(name, sd) ==
    /\ pc = "idle"
    /\ LET months == start_month_till_now(sd, now)
       IN  IF IsRaise(months)
           THEN /\ pc' = "error"
                /\ error' = months
                /\ periods' = <<>>
           ELSE /\ pc' = "loop"
                /\ error' = error
                /\ periods' = months.v
    /\ stream' = name
    /\ start_date' = sd
    /\ UNCHANGED <<now, logged_in, date_month, export, number, yielded,
                   queries, state, written, row, results, bookmark>>

\* a variant of the check of export_data that lets every client through
export_unchecked(li) == None

\* the first statement of export_data: a client that is not logged in is
\* refused with a RuntimeError
export_check(li) ==
    IF ~li THEN Raise("RuntimeError", None, "NoType") ELSE None

\* The next month of the loop: the query is built and export_data sends it.
\* The remote answers with some response, or the call fails.
ExportData ==
    /\ AtLoop
    /\ periods # <<>>
    /\ LET dm == Head(periods)
           query == QueryFor(stream, dm)
       IN  /\ date_month' = dm
           /\ periods' = Tail(periods)
           /\ IF IsRaise(export_check(logged_in))
              THEN /\ pc' = "error"
                   /\ error' = export_check(logged_in)
                   /\ UNCHANGED <<queries, export, number>>
              ELSE \/ \E kinds \in KindSeqs :
                         \E response \in {RemoteResponse(stream, query, kinds)} :
                            /\ queries' = Append(queries,
                                    [code |-> CodeOf(stream),
                                     periods |-> QueryPeriods(query),
                                     lines |-> Len(response.lines),
                                     response |-> response.lines])
                            /\ export' = ParseResponse(response)
                            /\ number' = 0
                            /\ pc' = "rows"
                            /\ error' = error
                   \/ /\ queries' = Append(queries,
                                    [code |-> CodeOf(stream),
                                     periods |-> QueryPeriods(query),
                                     lines |-> 0,
                                     response |-> <<>>])
                      /\ pc' = "error"
                      /\ error' = Raise("TransportError", None, "NoType")
                      /\ UNCHANGED <<export, number>>
    /\ UNCHANGED <<now, logged_in, stream, start_date, yielded, state,
                   written, row, results, bookmark>>

\* cleaner(row, number) for the next row of the export; the record is yielded
YieldRecord ==
    /\ pc = "rows"
    /\ number < Len(export)
    /\ \E c \in {CLEANERS(stream, export[number + 1], number)} :
           /\ export' = [export EXCEPT ![number + 1] = c.row]
           /\ IF IsRaise(c.out)
              THEN /\ pc' = "error"
                   /\ error' = c.out
                   /\ UNCHANGED <<yielded, number>>
              ELSE /\ pc' = "yielded"
                   /\ yielded' = Append(yielded, c.out)
                   /\ number' = number + 1
                   /\ error' = error
    /\ UNCHANGED <<now, logged_in, stream, start_date, periods, date_month,
                   queries, state, written, row, results, bookmark>>

\* The consumer of the generator takes the yielded record, derives its
\* bookmark and updates the state, then asks for the next record.
SyncRecord ==
    /\ pc = "yielded"
    /\ LET bm == get_bookmark_value(stream, yielded[Len(yielded)].v)
       IN  IF IsRaise(bm)
           THEN /\ pc' = "error"
                /\ error' = bm
                /\ UNCHANGED <<state, written>>
           ELSE LET u == update_bookmark(stream, bm, state)
                IN  /\ state' = u.state
                    /\ written' = written \o u.written
                    /\ pc' = "rows"
                    /\ error' = error
    /\ UNCHANGED <<now, logged_in, stream, start_date, periods, date_month,
                   export, number, yielded, queries, row, results, bookmark>>

\* the period iterator is exhausted: the generator returns
Finish ==
    /\ AtLoop
    /\ periods = <<>>
    /\ pc' = "done"
    /\ UNCHANGED <<now, logged_in, stream, start_date, periods, date_month,
                   export, number, yielded, queries, error, state, written,
                   row, results, bookmark>>

Init ==
    /\ now \in Nows
    /\ logged_in = TRUE
    /\ pc = "idle"
    /\ stream = ""
    /\ start_date = <<>>
    /\ periods = <<>>
    /\ date_month = <<>>
    /\ export = <<>>
    /\ number = 0
    /\ yielded = <<>>
    /\ queries = <<>>
    /\ error = NoError
    /\ state = <<>>
    /\ written = <<>>
    /\ row = <<>>
    /\ results = <<>>
    /\ bookmark = NoCall

\* the tap starts the extraction of some stream with some start date
BeginStream == \E name \in StreamNames : \E sd \in ConfigStartDates(now) :
                  Begin(name, sd)

Next ==
    \/ BeginStream
    \/ ExportData
    \/ YieldRecord
    \/ SyncRecord
    \/ Finish

Spec == Init /\ [][Next]_vars

\* the step of ExportData, told by its guard and by what it does to the
\* months still to come: no other step of Next shortens periods
NextMonth == AtLoop /\ periods # <<>> /\ periods' = Tail(periods)

\* the step of YieldRecord, told by its guard and by the positions it joins:
\* no other step of Next leaves "rows" for "yielded" or "error" with rows left
NextRecord ==
    /\ pc = "rows"
    /\ number < Len(export)
    /\ pc' \in {"yielded", "error"}

\* The extraction with a consumer that takes every record the generator has
\* for it: each step of the generator and of the consumer that stays
\* possible is eventually taken. ExportData and YieldRecord are possible
\* whenever their guards hold, so fairness is stated on NextMonth and
\* NextRecord, which are the same steps.
SpecLive ==
    /\ Init
    /\ [][Next]_vars
    /\ WF_periods(NextMonth)
    /\ WF_pc(NextRecord)
    /\ WF_vars(SyncRecord)
    /\ WF_vars(Finish)

\* the client object between the first assignment of __init__
\* (_logged_in False) and the one of _login (_logged_in True)
InitSession ==
    /\ now \in Nows
    /\ logged_in \in BOOLEAN
    /\ pc = "idle"
    /\ stream = ""
    /\ start_date = <<>>
    /\ periods = <<>>
    /\ date_month = <<>>
    /\ export = <<>>
    /\ number = 0
    /\ yielded = <<>>
    /\ queries = <<>>
    /\ error = NoError
    /\ state = <<>>
    /\ written = <<>>
    /\ row = <<>>
    /\ results = <<>>
    /\ bookmark = NoCall

SpecSession == InitSession /\ [][Next]_vars

\* the stream method is called with the current month as start date
BeginMonth == \E name \in StreamNames : Begin(name, StartDateOf(now))

\* the stream method that returned is called a second time with the same
\* start date; what the first extraction sent, received and yielded is kept
Again ==
    /\ pc = "done"
    /\ results = <<>>
    /\ results' = <<[fn |-> "extraction", stream |-> stream,
                     queries |-> queries, yielded |-> yielded]>>
    /\ \E months \in {start_month_till_now(start_date, now)} :
           periods' = months.v
    /\ pc' = "loop"
    /\ date_month' = <<>>
    /\ export' = <<>>
    /\ number' = 0
    /\ yielded' = <<>>
    /\ queries' = <<>>
    /\ UNCHANGED <<now, logged_in, stream, start_date, error, state,
                   written, row, bookmark>>

NextAgain ==
    \/ BeginMonth
    \/ ExportData
    \/ YieldRecord
    \/ SyncRecord
    \/ Finish
    \/ Again

SpecAgain == Init /\ [][NextAgain]_vars

(***************************************************************************)
(* The cleaners, get_bookmark_value and to_type_or_null called on their    *)
(* own: a raw row of some stream is cleaned, perhaps more than once, and   *)
(* the bookmark of the returned record is derived; or to_type_or_null is   *)
(* called with some value, type and nullability.                           *)
(***************************************************************************)
\* the month of the rows that are cleaned
BaseMonth == StrfTime(2021, 1)

\* a well-formed raw row of the stream, as export_data returns it
BaseRow(name) ==
    ParseResponse(RemoteResponse(name, QueryFor(name, BaseMonth),
                                 <<"base">>))[1]

\* the labels of the visible columns of a query field
LabelsOf(name, field) ==
    LET cols == VisibleColumns(QUERIES[CodeOf(name)])
    IN  {cols[i].label : i \in {j \in 1..Len(cols) : cols[j].field = field}}

\* other values a column of a raw row may hold: another text of its type, a
\* text that is no number and no date, the empty text, no text at all; the
\* period columns also another month
FieldValues(name, k) ==
    {OtherTextOf(TypeOf(name, k)), BadText, Str(<<>>), None}
    \cup (IF k \in LabelsOf(name, "fin.trs.head.yearperiod")
          THEN {Str(StrfTime(2020, 12)), Str(StrfTime(2021, 3))} ELSE {})
    \cup (IF k \in LabelsOf(name, "fin.trs.head.period")
          THEN {Str(NatToStr(3)), Str(NatToStr(12))} ELSE {})

\* the raw rows that are cleaned: the well-formed row, and that row with one
\* column holding another value or lacking
RawRowsOf(base, name) ==
    {base}
    \cup UNION {{SetItem(base, k, v) : v \in FieldValues(name, k)} :
                  k \in Keys(base)}
    \cup {DelItem(base, k) : k \in Keys(base)}
\* the streams whose records nest a 'groups' list, and the columns of their
\* raw rows the list is built from
GroupStreams ==
    {"general_ledger_details", "annual_report", "annual_report_multicurrency"}
GroupColumns ==
    {"Groep " \o DigitChars[i + 1] : i \in 1..5}
    \cup {"Groepnaam " \o DigitChars[i + 1] : i \in 1..5}

\* a raw row with no text in any of its group columns, and one without them
NullGroups(base) ==
    [i \in 1..Len(base) |->
        IF base[i][1] \in GroupColumns THEN <<base[i][1], None>> ELSE base[i]]
NoGroups(base) == SelectSeq(base, LAMBDA it : it[1] \notin GroupColumns)
GroupRows(base, name) ==
    IF name \in GroupStreams THEN {NullGroups(base), NoGroups(base)} ELSE {}

RawRows(name) ==
    RawRowsOf(BaseRow(name), name) \cup GroupRows(BaseRow(name), name)

\* the ordinals enumerate(export) gives the rows of a response
Ordinals == 0..(MaxRows - 1)

\* values, target types given to to_type_or_null: a field of a raw row is
\* a text or None; the empty list and dict are the other empty values
InputValues ==
    {None, Str(<<>>), List(<<>>), Dict(<<>>),
     TextOf("int"), TextOf("Decimal"), TextOf("date_parser"), BadText,
     Str(<<" ", "4", "2", " ">>)}
DataTypes == {"NoType", "int", "Decimal", "date_parser"}
\* a date column is given a date text, a text that is no date, or nothing
DateInputs ==
    {None, Str(<<>>), List(<<>>), Dict(<<>>), TextOf("date_parser"), BadText}

\* CLEANERS[stream](row, n): the row object is the one of earlier calls
CallCleaner(n) ==
    /\ pc = "clean"
    /\ Len(results) < MaxCalls
    /\ \E c \in {CLEANERS(stream, row, n)} :
           /\ row' = c.row
           /\ results' = Append(results,
                                [fn |-> "cleaner", number |-> n,
                                 arg |-> row, out |-> c.out])
    /\ UNCHANGED <<now, logged_in, pc, stream, start_date, periods,
                   date_month, export, number, yielded, queries, error,
                   state, written, bookmark>>

\* get_bookmark_value(stream, record) for the record the last call returned
GetBookmarkValue ==
    /\ pc = "clean"
    /\ results # <<>>
    /\ results[Len(results)].out.t = "dict"
    /\ bookmark = NoCall
    /\ bookmark' = [t |-> "call", stream |-> stream,
                    record |-> results[Len(results)].out,
                    value |-> get_bookmark_value(
                                 stream, results[Len(results)].out.v)]
    /\ UNCHANGED <<now, logged_in, pc, stream, start_date, periods,
                   date_month, export, number, yielded, queries, error,
                   state, written, row, results>>

\* to_type_or_null(input_value, data_type, nullable)
CallToTypeOrNull(input_value, data_type, nullable) ==
    /\ pc = "convert"
    /\ results = <<>>
    /\ results' = Append(results,
                         [fn |-> "to_type_or_null",
                          arg |-> <<input_value, data_type, nullable>>,
                          out |-> to_type_or_null(input_value, data_type,
                                                  nullable)])
    /\ UNCHANGED <<now, logged_in, pc, stream, start_date, periods,
                   date_month, export, number, yielded, queries, error,
                   state, written, row, bookmark>>

CleanRow == \E n \in Ordinals : CallCleaner(n)
ConvertValue ==
    \E dt \in DataTypes :
       \E v \in IF dt = "date_parser" THEN DateInputs ELSE InputValues :
          \E nullable \in BOOLEAN : CallToTypeOrNull(v, dt, nullable)

InitClean ==
    /\ now = <<2021, 1>>
    /\ logged_in = TRUE
    /\ \/ /\ pc = "clean"
          /\ stream \in StreamNames
          /\ row \in RawRows(stream)
       \/ /\ pc = "convert"
          /\ stream = ""
          /\ row = <<>>
    /\ start_date = <<>>
    /\ periods = <<>>
    /\ date_month = <<>>
    /\ export = <<>>
    /\ number = 0
    /\ yielded = <<>>
    /\ queries = <<>>
    /\ error = NoError
    /\ state = <<>>
    /\ written = <<>>
    /\ results = <<>>
    /\ bookmark = NoCall

NextClean ==
    \/ CleanRow
    \/ GetBookmarkValue
    \/ ConvertValue

SpecClean == InitClean /\ [][NextClean]_vars

(***************************************************************************)
(* update_bookmark called on its own: a state document, as loaded at the   *)
(* start of a run, receives a sequence of bookmark updates.                *)
(***************************************************************************)
\* the state documents a run starts with: empty, with a currently_syncing
\* marker, with a bookmark of an earlier run
StoredMonth == Str(StartDateOf(<<2020, 12>>))
InitialStates ==
    {<<>>,
     << <<"currently_syncing", Str(<<"suppliers">>)>> >>,
     << <<"bookmarks",
          Dict(<< <<"suppliers",
                    Dict(<< <<"start_date", StoredMonth>> >>)>> >>)>>,
        <<"currently_syncing", Str(<<"suppliers">>)>> >>}

\* the bookmark values handed to update_bookmark: none, the empty text, and
\* the 'YYYY-MM' texts of three successive months
BookmarkValues ==
    {None, Str(<<>>)}
    \cup {Str(StartDateOf(p)) : p \in {<<2020, 12>>, <<2021, 1>>, <<2021, 2>>}}

\* update_bookmark(tap_stream_id, bm, state)
UpdateBookmark(tap_stream_id, bm) ==
    /\ pc = "tools"
    /\ Len(results) < MaxUpdates
    /\ \E u \in {update_bookmark(tap_stream_id, bm, state)} :
           /\ state' = u.state
           /\ written' = written \o u.written
    /\ results' = Append(results,
                         [fn |-> "update_bookmark", stream |-> tap_stream_id,
                          bookmark |-> bm, before |-> state])
    /\ UNCHANGED <<now, logged_in, pc, stream, start_date, periods,
                   date_month, export, number, yielded, queries, error,
                   row, bookmark>>

Update == \E tap_stream_id \in StreamNames : \E bm \in BookmarkValues :
             UpdateBookmark(tap_stream_id, bm)

InitTools ==
    /\ now = <<2021, 1>>
    /\ logged_in = TRUE
    /\ pc = "tools"
    /\ stream = ""
    /\ start_date = <<>>
    /\ periods = <<>>
    /\ date_month = <<>>
    /\ export = <<>>
    /\ number = 0
    /\ yielded = <<>>
    /\ queries = <<>>
    /\ error = NoError
    /\ state \in InitialStates
    /\ written = <<>>
    /\ row = <<>>
    /\ results = <<>>
    /\ bookmark = NoCall

NextTools == Update

SpecTools == InitTools /\ [][NextTools]_vars

(***************************************************************************)
(* Properties                                                              *)
(***************************************************************************)
\* the number of the month of a 'YYYY-MM' or 'YYYY/MM' text, counted from
\* year 0
MonthIndex(txt) ==
    DigitsToNat(SubSeq(txt, 1, 4), 0) * 12
    + DigitsToNat(SubSeq(txt, 6, 7), 0) - 1
\* txt is four digits, the character sep, and the two digits of a month
IsMonthText(txt, sep) ==
    /\ Len(txt) = 7
    /\ txt[5] = sep
    /\ \A i \in {1, 2, 3, 4, 6, 7} : txt[i] \in {DigitChars[d] : d \in 1..10}
    /\ DigitsToNat(SubSeq(txt, 6, 7), 0) \in 1..12
NowIndex == now[1] * 12 + now[2] - 1

\* the period iterator has been set up and no month has been taken from it,
\* for a start date that is not after the current month
FreshIterator ==
    /\ pc = "loop"
    /\ date_month = <<>>
    /\ IsMonthText(start_date, "-")
    /\ MonthIndex(start_date) <= NowIndex

\* C1: for a valid start_date 'YYYY-MM' not after the current month the
\* period iterator yields 'YYYY/MM' texts: the first is the start month,
\* each next one is the calendar month after its predecessor (January of
\* the next year after a December), the last is the current month; a
\* start_date equal to the current month yields exactly one element.
C1_PeriodIterator ==
    FreshIterator =>
        /\ Len(periods) >= 1
        /\ \A i \in 1..Len(periods) :
              /\ IsMonthText(periods[i], "/")
              /\ MonthIndex(periods[i]) = MonthIndex(start_date) + i - 1
        /\ MonthIndex(periods[Len(periods)]) = NowIndex
        /\ (MonthIndex(start_date) = NowIndex => Len(periods) = 1)

\* C1's case: an iterator set up in January for a start date in the December
\* before: two months, across the turn of the year
C1_Witness ==
    /\ FreshIterator
    /\ now[2] = 1
    /\ MonthIndex(start_date) = NowIndex - 1
    /\ Len(periods) = 2

\* the records yielded for the rows of the current response
Batch == SubSeq(yielded, Len(yielded) - number + 1, Len(yielded))

\* C2: the ids the stream's cleaner gives the rows of one response (one
\* stream-month batch) are pairwise distinct, also for two rows with the
\* same column values.
C2_BatchIdsDistinct ==
    \A i \in 1..Len(Batch) : \A j \in 1..Len(Batch) :
        i # j => Get(Batch[i].v, "id") # Get(Batch[j].v, "id")

\* two calls of a cleaner, one after the other, with the same row object and
\* the same ordinal
SameCallTwice(i) ==
    /\ i + 1 <= Len(results)
    /\ results[i].fn = "cleaner"
    /\ results[i + 1].fn = "cleaner"
    /\ results[i].number = results[i + 1].number

\* C3: calling a cleaner twice in succession with the same row and ordinal
\* returns two identical records, with the same id.
C3_SameCallSameRecord ==
    \A i \in 1..Len(results) :
        SameCallTwice(i) => results[i + 1].out = results[i].out

\* the bookmark the state holds for a stream, None if it holds none
StoredBookmark(st, name) ==
    IF Has(st, "bookmarks") /\ Has(Item(st, "bookmarks").v, name)
    THEN Get(Item(Item(st, "bookmarks").v, name).v, "start_date")
    ELSE None

\* a bank_transactions extraction of the current month alone has returned
SingleMonthDone ==
    /\ stream = "bank_transactions"
    /\ pc = "done"
    /\ IsMonthText(start_date, "-")
    /\ MonthIndex(start_date) = NowIndex

\* C5: a bank_transactions extraction of a single month M that completes,
\* with a response of n rows, has sent one query (report 410, month M) and
\* yielded n records, each with yearperiod M as 'YYYY/MM'; with the
\* bookmarks of those records applied by update_bookmark the state holds
\* bookmarks.bank_transactions.start_date = M as 'YYYY-MM'.
C5_SingleMonthExtraction ==
    SingleMonthDone =>
        /\ Len(queries) = 1
        /\ queries[1].code = "410"
        /\ queries[1].periods = {now}
        /\ Len(yielded) = queries[1].lines
        /\ \A i \in 1..Len(yielded) :
              /\ Get(yielded[i].v, "yearperiod").t = "str"
              /\ IsMonthText(Get(yielded[i].v, "yearperiod").v, "/")
              /\ MonthIndex(Get(yielded[i].v, "yearperiod").v) = NowIndex
        /\ (Len(yielded) >= 1 =>
              StoredBookmark(state, "bank_transactions") = Str(start_date))

\* C5's case: the extraction of the current month with a response of two
\* rows has returned and its bookmark is stored
C5_Witness ==
    /\ SingleMonthDone
    /\ queries[1].lines = 2
    /\ Len(yielded) = 2
    /\ StoredBookmark(state, "bank_transactions") = Str(start_date)

\* the states the document went through: before each update, and now
StateHistory ==
    [k \in 1..Len(results) |-> results[k].before] \o <<state>>

\* the bookmarks a stream's state went through
StoredHistory(name) ==
    [k \in 1..Len(StateHistory) |-> StoredBookmark(StateHistory[k], name)]

\* the values of the updates of a stream that carried a value, in order
Applied(name) ==
    LET calls == SelectSeq(results,
                           LAMBDA c : c.stream = name /\ c.bookmark # None
                                      /\ c.bookmark # Str(<<>>))
    IN  [k \in 1..Len(calls) |-> calls[k].bookmark]

\* no element of a sequence of 'YYYY-MM' texts (or None) is followed by an
\* earlier month
Ascending(months) ==
    \A i \in 1..Len(months) : \A j \in i..Len(months) :
        (months[i] # None /\ months[j] # None) =>
            MonthIndex(months[i].v) <= MonthIndex(months[j].v)

UpdatesOnly == pc = "tools"

\* C4 as stated: after any sequence of update_bookmark calls with arbitrary
\* values the bookmark stored for a stream never moves to an earlier month
\* than one stored for it before.
C4_NeverBackwards ==
    UpdatesOnly => \A name \in StreamNames : Ascending(StoredHistory(name))

\* C4 amended: the bookmark stored for a stream is the value of the last
\* update_bookmark call for it that carried a value (the one stored before,
\* if there was no such call); so it does not move to an earlier month as
\* long as the values of the calls and the one stored before are in
\* ascending month order.
C4_LastValueStored ==
    UpdatesOnly =>
        \A name \in StreamNames :
            /\ StoredBookmark(state, name) =
                  IF Applied(name) # <<>>
                  THEN Applied(name)[Len(Applied(name))]
                  ELSE StoredHistory(name)[1]
            /\ Ascending(<<StoredHistory(name)[1]>> \o Applied(name))
                  => Ascending(StoredHistory(name))

\* C4's case: a stream has received two values, the second a later month
\* than the first, and holds the second
C4_Witness ==
    /\ UpdatesOnly
    /\ \E name \in StreamNames :
          /\ Len(Applied(name)) = 2
          /\ MonthIndex(Applied(name)[1].v) < MonthIndex(Applied(name)[2].v)
          /\ StoredBookmark(state, name) = Applied(name)[2]

\* the bookmark derived from a record that the cleaner of `names` returned
DerivedFor(names) ==
    /\ bookmark # NoCall
    /\ bookmark.stream \in names

\* C6: for bank_transactions, general_ledger_transactions and
\* transactions_to_be_matched and a record whose yearperiod is 'YYYY/MM',
\* get_bookmark_value returns 'YYYY-MM' with the same year and month.
C6_YearPeriodBookmark ==
    (/\ DerivedFor({"bank_transactions", "general_ledger_transactions",
                    "transactions_to_be_matched"})
     /\ Get(bookmark.record.v, "yearperiod").t = "str"
     /\ IsMonthText(Get(bookmark.record.v, "yearperiod").v, "/"))
    => /\ bookmark.value.t = "str"
       /\ IsMonthText(bookmark.value.v, "-")
       /\ \A i \in {1, 2, 3, 4, 6, 7} :
             bookmark.value.v[i] = Get(bookmark.record.v, "yearperiod").v[i]

\* C6's case: the bookmark '2021-03' derived from a bank_transactions record
\* with yearperiod '2021/03'
C6_Witness ==
    /\ DerivedFor({"bank_transactions"})
    /\ Get(bookmark.record.v, "yearperiod") = Str(StrfTime(2021, 3))
    /\ bookmark.value = Str(<<"2", "0", "2", "1", "-", "0", "3">>)

\* C7: for general_ledger_details, annual_report and suppliers and a record
\* with integer year y and period p, get_bookmark_value returns the text of
\* y, a hyphen, and p padded with zeros on the left to two digits.
C7_YearAndPeriodBookmark ==
    (/\ DerivedFor({"general_ledger_details", "annual_report", "suppliers"})
     /\ Get(bookmark.record.v, "year").t = "int"
     /\ Get(bookmark.record.v, "period").t = "int"
     /\ Get(bookmark.record.v, "year").v[1] \in 1000..9999
     /\ Get(bookmark.record.v, "period").v[1] \in 0..99)
    => /\ bookmark.value.t = "str"
       /\ Len(bookmark.value.v) = 7
       /\ bookmark.value.v[5] = "-"
       /\ \A i \in {1, 2, 3, 4, 6, 7} :
             bookmark.value.v[i] \in {DigitChars[d] : d \in 1..10}
       /\ DigitsToNat(SubSeq(bookmark.value.v, 1, 4), 0) =
             Get(bookmark.record.v, "year").v[1]
       /\ DigitsToNat(SubSeq(bookmark.value.v, 6, 7), 0) =
             Get(bookmark.record.v, "period").v[1]

\* C7's case: the bookmark '2021-03' derived from a general_ledger_details
\* record with year 2021 and period 3
C7_Witness ==
    /\ DerivedFor({"general_ledger_details"})
    /\ Get(bookmark.record.v, "year") = PyInt(2021)
    /\ Get(bookmark.record.v, "period") = PyInt(3)
    /\ bookmark.value = Str(<<"2", "0", "2", "1", "-", "0", "3">>)

\* the name a mapping entry gives its field in the record
TargetName(entry) == IF entry.map # "" THEN entry.map ELSE entry.key

\* the mapping entries of a stream for a column of its raw rows that is
\* declared nullable and that the row r lacks
MissingNullable(name, r) ==
    {i \in 1..Len(STREAMS[name].mapping) :
        /\ STREAMS[name].mapping[i].null
        /\ STREAMS[name].mapping[i].key \in Keys(BaseRow(name))
        /\ STREAMS[name].mapping[i].key \notin Keys(r)}

\* C8: for a raw row that lacks the column of a field declared nullable the
\* cleaner completes without error and the field of the record is null.
C8_MissingNullableIsNull ==
    \A k \in 1..Len(results) :
        results[k].fn = "cleaner" =>
            \A i \in MissingNullable(stream, results[k].arg) :
                /\ results[k].out.t = "dict"
                /\ Get(results[k].out.v,
                       TargetName(STREAMS[stream].mapping[i])) = None

\* a call of to_type_or_null with the given value, type and nullability
Converted(k, values, types, nullables) ==
    /\ results[k].fn = "to_type_or_null"
    /\ results[k].arg[1] \in values
    /\ results[k].arg[2] \in types
    /\ results[k].arg[3] \in nullables

\* C9: to_type_or_null with nullable false returns an empty value ('' or
\* None) unchanged, whatever the target type, and raises nothing; a present
\* value with no target type is returned unchanged.
C9_PassThrough ==
    \A k \in 1..Len(results) :
        /\ Converted(k, {None, Str(<<>>)}, DataTypes, {FALSE})
              => results[k].out = results[k].arg[1]
        /\ Converted(k, InputValues \ {None, Str(<<>>), List(<<>>), Dict(<<>>)},
                     {"NoType"}, BOOLEAN)
              => results[k].out = results[k].arg[1]

\* C9's case: the empty text given for a non-nullable int field comes back
\* as the empty text
C9_Witness ==
    \E k \in 1..Len(results) :
        /\ Converted(k, {Str(<<>>)}, {"int"}, {FALSE})
        /\ results[k].out = Str(<<>>)

\* ConvertionError raised for the value and the target type
IsConvertionError(out, value, type) ==
    /\ out.t = "raise"
    /\ out.exc = "ConvertionError"
    /\ out.value = value
    /\ out.type = type

\* the typed columns of a raw row that hold the text that is no number and
\* no date
Unconvertible(name, r) ==
    {i \in 1..Len(STREAMS[name].mapping) :
        /\ STREAMS[name].mapping[i].type # "NoType"
        /\ Get(r, STREAMS[name].mapping[i].key) = BadText}

\* C10: a present value that cannot be converted to its target type (int,
\* Decimal, date_parser) makes to_type_or_null, and the cleaner of a row
\* that holds it, fail with ConvertionError carrying the value and the
\* type; no other exception escapes and no value is returned.
C10_ConvertionError ==
    \A k \in 1..Len(results) :
        /\ Converted(k, {BadText}, DataTypes \ {"NoType"}, BOOLEAN)
              => IsConvertionError(results[k].out, results[k].arg[1],
                                   results[k].arg[2])
        /\ results[k].fn = "cleaner" =>
              \A i \in Unconvertible(stream, results[k].arg) :
                  IsConvertionError(results[k].out, BadText,
                                    STREAMS[stream].mapping[i].type)

\* the extraction of some stream was begun with a start_date that is not a
\* year and a month
BegunMalformed == pc # "idle" /\ start_date \in MalformedStartDates

ExportCalled == pc # "idle" /\ date_month # <<>>

StreamEntry(st, name) ==
    IF Has(st, "bookmarks") THEN Get(Item(st, "bookmarks").v, name) ELSE None

\* the state after the k-th update_bookmark call
StateAfter(k) == StateHistory[k + 1]

\* C13: after update_bookmark(stream, b, state) with a present value b the
\* state holds b under bookmarks[stream][bookmark field of the stream], and
\* the bookmarks of every other stream are what they were before the call.
C13_PresentBookmarkStored ==
    UpdatesOnly =>
        \A k \in 1..Len(results) :
            Truthy(results[k].bookmark) =>
                /\ Get(StreamEntry(StateAfter(k), results[k].stream).v,
                       STREAMS[results[k].stream].bookmark)
                       = results[k].bookmark
                /\ \A other \in StreamNames \ {results[k].stream} :
                       StreamEntry(StateAfter(k), other)
                           = StreamEntry(results[k].before, other)

\* a present value was stored for a stream while another stream had a
\* bookmark, which is still there
C13_Witness ==
    /\ UpdatesOnly
    /\ Len(results) = 1
    /\ results[1].stream = "bank_transactions"
    /\ Truthy(results[1].bookmark)
    /\ StoredBookmark(state, "bank_transactions") = results[1].bookmark
    /\ StreamEntry(results[1].before, "suppliers") # None
    /\ StreamEntry(state, "suppliers") = StreamEntry(results[1].before, "suppliers")

\* C14: every update_bookmark call, with or without a value, leaves the
\* state without a currently_syncing marker and writes the state out exactly
\* once; without a value the bookmarks of the state are left as they were.
C14_ClearsAndPersists ==
    UpdatesOnly =>
        /\ Len(written) = Len(results)
        /\ \A k \in 1..Len(results) :
              /\ ~Has(StateAfter(k), "currently_syncing")
              /\ written[k] = StateAfter(k)
              /\ ~Truthy(results[k].bookmark) =>
                    /\ Has(StateAfter(k), "bookmarks")
                           = Has(results[k].before, "bookmarks")
                    /\ Get(StateAfter(k), "bookmarks")
                           = Get(results[k].before, "bookmarks")

\* a call without a value on a state that had a marker and a bookmark
C14_Witness ==
    /\ UpdatesOnly
    /\ Len(results) = 1
    /\ ~Truthy(results[1].bookmark)
    /\ Has(results[1].before, "currently_syncing")
    /\ StreamEntry(results[1].before, "suppliers") # None
    /\ ~Has(state, "currently_syncing")
    /\ StreamEntry(state, "suppliers") = StreamEntry(results[1].before, "suppliers")
    /\ Len(written) = 1

\* the extraction of a stream failed while it processed the month
\* date_month: the export of the month failed or one of its rows could not
\* be cleaned
FailedInMonth == pc = "error" /\ date_month # <<>>

\* the bookmark value of the k-th record the consumer processed
BookmarkOf(k) == get_bookmark_value(stream, yielded[k].v)

\* the bookmark value of the last processed record that has one
LastBookmark ==
    LET ks == {k \in 1..Len(written) : Truthy(BookmarkOf(k))}
    IN  IF ks = {} THEN None
        ELSE BookmarkOf(CHOOSE k \in ks : \A j \in ks : j <= k)

IdsOf(records) == [k \in 1..Len(records) |-> Get(records[k].v, "id")]

\* a stream-month was extracted twice and the service answered the second
\* export with the response of the first
ExtractedTwice ==
    /\ pc = "done"
    /\ results # <<>>
    /\ results[1].fn = "extraction"
    /\ results[1].queries = queries

BegunInFuture ==
    /\ pc # "idle"
    /\ IsMonthText(start_date, "-")
    /\ MonthIndex(start_date) > NowIndex

\* C17: when start_date is a month after the current month the period
\* iterator yields nothing: the extraction returns without a failure, having
\* sent no query and yielded no record.
C17_FutureStartIsEmpty ==
    BegunInFuture =>
        /\ periods = <<>>
        /\ date_month = <<>>
        /\ pc \in {"loop", "done"}
        /\ error = NoError
        /\ queries = <<>>
        /\ yielded = <<>>

C17_Witness ==
    /\ BegunInFuture
    /\ pc = "done"
    /\ queries = <<>>
    /\ yielded = <<>>

\* the empty values: None, the empty text, the empty list, the empty dict
EmptyValues == {None, Str(<<>>), List(<<>>), Dict(<<>>)}

\* C18: to_type_or_null with nullable true returns None for every empty
\* value (None, '', [], {}) and every target type, the absent one included;
\* nothing is raised, so no conversion was attempted.
C18_EmptyIsNull ==
    \A k \in 1..Len(results) :
        Converted(k, EmptyValues, DataTypes, {TRUE}) => results[k].out = None

\* the empty dict given for a nullable Decimal field comes back as None
C18_Witness ==
    \E k \in 1..Len(results) :
        /\ Converted(k, {Dict(<<>>)}, {"Decimal"}, {TRUE})
        /\ results[k].out = None

\* the k-th call was a cleaner call that returned a record
Cleaned(k) ==
    /\ results[k].fn = "cleaner"
    /\ ~IsRaise(results[k].out)

\* the target names the mapping of a stream declares
TargetNames(name) ==
    {TargetName(STREAMS[name].mapping[i]) : i \in 1..Len(STREAMS[name].mapping)}

\* the raw column names of a stream: the mapping keys that are renamed
RenamedColumns(name) ==
    {STREAMS[name].mapping[i].key : i \in 1..Len(STREAMS[name].mapping)}
        \ TargetNames(name)

\* C19: the keys of a record that a cleaner returns are exactly the target
\* names of the stream's mapping, each once: no raw column name and no
\* other key.
C19_KeysAreTargets ==
    \A k \in 1..Len(results) :
        Cleaned(k) =>
            /\ Keys(results[k].out.v) = TargetNames(stream)
            /\ Len(results[k].out.v) = Cardinality(TargetNames(stream))

\* a supplier row with renamed columns was cleaned: none of the raw names
\* is a key of the record
C19_Witness ==
    /\ pc = "clean"
    /\ stream = "suppliers"
    /\ RenamedColumns(stream) # {}
    /\ \E k \in 1..Len(results) :
          /\ Cleaned(k)
          /\ \A c \in RenamedColumns(stream) : ~Has(results[k].out.v, c)
          /\ \A c \in RenamedColumns(stream) : Has(results[k].arg, c)

\* C20: every record a cleaner returns has the key field `id`, and its
\* value is the digest of the row: neither None nor empty.
C20_IdPresent ==
    \A k \in 1..Len(results) :
        Cleaned(k) =>
            /\ STREAMS[stream].key_properties = "id"
            /\ Has(results[k].out.v, "id")
            /\ Get(results[k].out.v, "id") # None
            /\ Truthy(Get(results[k].out.v, "id"))
            /\ Get(results[k].out.v, "id").t = "sha1"

\* a general_ledger_details row, whose record is built from a response_row,
\* was cleaned and has its digest
C20_Witness ==
    /\ pc = "clean"
    /\ stream = "general_ledger_details"
    /\ \E k \in 1..Len(results) :
          /\ Cleaned(k)
          /\ Get(results[k].out.v, "id").t = "sha1"

\* the i-th {group, group_name} pair of a raw row
GroupPair(r, i) ==
    Dict(<< <<"group", Get(r, "Groep " \o DigitChars[i + 1])>>,
            <<"group_name", Get(r, "Groepnaam " \o DigitChars[i + 1])>> >>)

\* no group column of the raw row holds a text
AllGroupsNull(r) == \A c \in GroupColumns : Get(r, c) = None

\* C21: for general_ledger_details, annual_report and
\* annual_report_multicurrency the `groups` field of a record is a list of
\* exactly five {group, group_name} pairs, the i-th taken from the columns
\* 'Groep i' and 'Groepnaam i' of the raw row; the list has its five pairs,
\* and is not None, also when no group column of the row holds a text.
C21_FiveGroups ==
    stream \in GroupStreams =>
        \A k \in 1..Len(results) :
            Cleaned(k) =>
                /\ Has(results[k].out.v, "groups")
                /\ Get(results[k].out.v, "groups").t = "list"
                /\ Len(Get(results[k].out.v, "groups").v) = 5
                /\ \A i \in 1..5 :
                      Get(results[k].out.v, "groups").v[i]
                          = GroupPair(results[k].arg, i)

\* a row without any group column was cleaned: five pairs of None
C21_Witness ==
    /\ pc = "clean"
    /\ stream = "annual_report"
    /\ \E k \in 1..Len(results) :
          /\ Cleaned(k)
          /\ AllGroupsNull(results[k].arg)
          /\ ~Has(results[k].arg, "Groep 1")
          /\ Len(Get(results[k].out.v, "groups").v) = 5
          /\ Get(results[k].out.v, "groups").v[5]
                = Dict(<< <<"group", None>>, <<"group_name", None>> >>)

\* the labels of the visible columns of the query a stream method sends
VisibleLabels(name) ==
    {VisibleColumns(QUERIES[CodeOf(name)])[i].label :
        i \in 1..Len(VisibleColumns(QUERIES[CodeOf(name)]))}

\* the raw columns the mapping of a stream reads: its keys other than the
\* derived 'id' and 'groups'
MappingColumns(name) ==
    {STREAMS[name].mapping[i].key : i \in 1..Len(STREAMS[name].mapping)}
        \ {"id", "groups"}

\* the k-th call was a cleaner call on a row that has every column of the
\* stream's query
CleanedFullRow(k) ==
    /\ results[k].fn = "cleaner"
    /\ VisibleLabels(stream) \subseteq Keys(results[k].arg)

\* C22: every raw column the mapping of a stream reads is the label of a
\* visible column of the query the stream's method sends, so cleaning a row
\* that has the columns of that query never fails on a missing key.
C22_MappingKeysAreColumns ==
    pc = "clean" =>
        /\ MappingColumns(stream) \subseteq VisibleLabels(stream)
        /\ \A k \in 1..Len(results) :
              CleanedFullRow(k) =>
                  ~(IsRaise(results[k].out) /\ results[k].out.exc = "KeyError")

\* a suppliers row with all its columns was cleaned and every mapping key
\* was found
C22_Witness ==
    /\ pc = "clean"
    /\ stream = "suppliers"
    /\ MappingColumns(stream) # {}
    /\ \E k \in 1..Len(results) : CleanedFullRow(k) /\ Cleaned(k)

\* C23: a cleaner call leaves the raw row it is given as it was: after the
\* call the row object has the keys and the values it had before.
C23_RowUnchanged ==
    (pc = "clean" /\ results # <<>> /\ results[Len(results)].fn = "cleaner")
        => row = results[Len(results)].arg

\* the bookmark of the record of a well-formed row of the stream was derived
DerivedForBaseRow ==
    /\ pc = "clean"
    /\ bookmark # NoCall
    /\ results[1].arg = BaseRow(stream)
    /\ bookmark.record = results[1].out

\* C24: for every stream of STREAMS get_bookmark_value returns a 'YYYY-MM'
\* text, and not None, for a record of the stream.
C24_EveryStreamBookmarked ==
    DerivedForBaseRow =>
        /\ bookmark.value.t = "str"
        /\ IsMonthText(bookmark.value.v, "-")

\* the number of response rows of the first n queries of the extraction
RECURSIVE LinesUpTo(_)
LinesUpTo(n) == IF n = 0 THEN 0 ELSE LinesUpTo(n - 1) + queries[n].lines

\* the header of the responses to the queries of a stream
HeaderOf(name) ==
    [i \in 1..Len(VisibleColumns(QUERIES[CodeOf(name)])) |->
        VisibleColumns(QUERIES[CodeOf(name)])[i].label]

\* the record of the j-th row of the response to the n-th query, cleaned
\* with ordinal j - 1
RecordAt(n, j) ==
    CLEANERS(stream, ZipLine(Append(HeaderOf(stream), "?"),
                             queries[n].response[j]), j - 1).out

\* the month of queries[i] is before the month of queries[j]
QueriedBefore(i, j) ==
    \A p \in queries[i].periods : \A q \in queries[j].periods :
        PeriodLE(p, q) /\ p # q

\* C25: within one extraction the months are queried in ascending order;
\* the records yielded are those of the response rows, month after month
\* and within a month in the order of the rows, cleaned with the ordinals
\* 0, 1, ... (the record just yielded is the one of the next row of the
\* current response); when the query of a month is sent every row of the
\* months before it has been yielded.
C25_InOrder ==
    (pc \in {"loop", "rows", "yielded", "done", "error"} /\ queries # <<>>) =>
        /\ \A i \in 1..Len(queries) : \A j \in (i + 1)..Len(queries) :
              QueriedBefore(i, j)
        /\ LinesUpTo(Len(queries) - 1) <= Len(yielded)
        /\ Len(yielded) <= LinesUpTo(Len(queries))
        /\ pc \in {"rows", "yielded"} =>
              number = Len(yielded) - LinesUpTo(Len(queries) - 1)
        /\ pc = "yielded" =>
              yielded[Len(yielded)] = RecordAt(Len(queries), number)

\* two months were extracted: two different rows of the first month, then
\* the query of the second month and a row of it
C25_Witness ==
    /\ pc = "done"
    /\ stream = "general_ledger_details"
    /\ Len(queries) = 2
    /\ queries[1].lines = 2
    /\ queries[1].response[1] # queries[1].response[2]
    /\ queries[2].lines >= 1
    /\ Len(yielded) = LinesUpTo(2)
    /\ yielded[1] # yielded[2]
    /\ yielded[2] = RecordAt(1, 2)

\* the remote call of the month date_month failed
RemoteFailed ==
    /\ pc = "error"
    /\ IsRaise(error)
    /\ error.exc = "TransportError"

\* C26: no month is queried twice in an extraction; when the remote call
\* for the month M fails the extraction has ended with that error: the last
\* query sent is the one for M, no record of M was yielded, and the
\* generator takes no further step (no second query for M, no query for a
\* later month, no further record).
C26_RemoteFailureEnds ==
    /\ \A i \in 1..Len(queries) : \A j \in (i + 1)..Len(queries) :
          queries[i].periods \cap queries[j].periods = {}
    /\ RemoteFailed =>
          /\ queries # <<>>
          /\ queries[Len(queries)].lines = 0
          /\ \A p \in queries[Len(queries)].periods :
                StrfTime(p[1], p[2]) = date_month
          /\ Len(yielded) = LinesUpTo(Len(queries) - 1)
          /\ ~ENABLED Next

\* the call for the first of two months failed: one query, no record, and
\* the second month still in the iterator
C26_Witness ==
    /\ RemoteFailed
    /\ Len(queries) = 1
    /\ periods # <<>>
    /\ yielded = <<>>
    /\ ~ENABLED Next

\* a stream method was called with a 'YYYY-MM' start date that is not after
\* the current month
BegunValid ==
    /\ pc = "loop"
    /\ date_month = <<>>
    /\ IsMonthText(start_date, "-")
    /\ MonthIndex(start_date) <= NowIndex

\* the generator has returned after one query for every month from the
\* start month to the current month, in order, and one record for every
\* row of the responses
EndedComplete ==
    /\ pc = "done"
    /\ Len(queries) = NowIndex - MonthIndex(start_date) + 1
    /\ \A i \in 1..Len(queries) :
          \A p \in queries[i].periods :
              p[1] * 12 + p[2] - 1 = MonthIndex(start_date) + i - 1
    /\ \A i \in 1..Len(queries) : queries[i].periods # {}
    /\ Len(yielded) = LinesUpTo(Len(queries))

\* C27: an extraction begun with a valid start_date not after the current
\* month and consumed to its end eventually stops: with a failure of a
\* remote call or of a row, or else returned, having sent exactly one query
\* per month from the start month to the current month and yielded exactly
\* one record per row received.
C27_Terminates == BegunValid ~> (pc = "error" \/ EndedComplete)

\* two months were extracted to the end without a failure
C27_Witness ==
    /\ EndedComplete
    /\ error = NoError
    /\ Len(queries) = 2
    /\ Len(yielded) = MaxRows + 1

\* C28: export_data returns one row per line of the response, in the order
\* of the response; every row holds, under the header label of each labelled
\* column, the text of the field at that column's position, has no entry for
\* the trailing unlabelled column, and holds as many values as the response
\* has labelled columns.
C28_AllColumns ==
    (pc = "rows" /\ number = 0 /\ queries # <<>>) =>
        LET q == queries[Len(queries)]
            labels == HeaderOf(stream)
        IN  /\ Len(export) = q.lines
            /\ \A k \in 1..Len(export) :
                  /\ \A i \in 1..Len(labels) :
                        /\ Has(export[k], labels[i])
                        /\ Item(export[k], labels[i]) = q.response[k][i]
                  /\ ~Has(export[k], "?")
                  /\ Len(export[k]) = Len(labels)

\* the streams get_bookmark_value derives a bookmark for
BookmarkedStreams ==
    StreamNames \cap (YearPeriodStreams \cup YearAndPeriodStreams)

\* C29: for a stream with a bookmark and a record yielded for month M, the
\* value get_bookmark_value derives from the record is a text that the period
\* iterator, given it as start_date, accepts without an exception, and the
\* first month of the sequence it then yields is M.
C29_BookmarkResumes ==
    (pc = "yielded" /\ stream \in BookmarkedStreams) =>
        \E bm \in {BookmarkOf(Len(yielded))} :
            /\ ~IsRaise(bm)
            /\ bm.t = "str"
            /\ \E months \in {start_month_till_now(bm.v, now)} :
                  /\ ~IsRaise(months)
                  /\ months.v # <<>>
                  /\ months.v[1] = date_month

\* a record of the month before the current one was yielded by a stream
\* whose bookmark is put together from the record's year and period
C29_Witness ==
    /\ pc = "yielded"
    /\ stream = "annual_report"
    /\ date_month = StrfTime(2020, 12)
    /\ BookmarkOf(Len(yielded)) = Str(<<"2", "0", "2", "0", "-", "1", "2">>)
    /\ Len(start_month_till_now(BookmarkOf(Len(yielded)).v, now).v) = 2

====
